---- MODULE Spec2Model ----
(***************************************************************************)
(* NexusWalletConnect: the facade / connection-state store of the loader   *)
(* (dev-loader, src/unnamed/part_008), the provider contract               *)
(* (01-base-provider.js) and the eight wallet adapters built on it.        *)
(*                                                                         *)
(* JavaScript is single-threaded: a handler runs without interruption up   *)
(* to an await on the injected wallet object.  Each action below is one    *)
(* such run; the wallet's answer (resolve / reject, and the value) is the   *)
(* environment's choice at the step that resumes the handler.              *)
(***************************************************************************)
EXTENDS Integers, Sequences, FiniteSets, TLC

(***************************************************************************)
(* Bounds of the model.                                                    *)
(***************************************************************************)
MaxConnects == 1       \* connect() calls that reach a wallet handshake
MaxRace == 2           \* the same, where connect() calls race each other
MaxGlobals == 1        \* injected globals in the window
MaxCallbacks == 2      \* distinct subscriber callbacks
MaxPathLen == 2
MaxFullPages == 101
MaxSats == 2
MaxBTC == 2        \* parts of a capability path handed to safeCall

NULL == "null"         \* JavaScript null in a string-valued field
UNDEF == -1            \* an absent (undefined) numeric field
undefined == "undefined"     \* JavaScript undefined in a string-valued field
NotAnAddress == "object"     \* an object stored where an address string is expected
NoProvider == 0        \* currentState.provider === null

Callbacks == 1..MaxCallbacks
ProviderIds == 1..(IF MaxRace > MaxConnects THEN MaxRace ELSE MaxConnects)

(***************************************************************************)
(* PROVIDER_CLASSES: the wallet names the factory knows.                   *)
(***************************************************************************)
PROVIDER_CLASSES ==
    {"UniSat", "Xverse", "OKX", "Leather", "Phantom", "Wizz", "MagicEden", "Oyl"}

\* names a caller may pass to connect(): the eight wallets and an unknown one
ConnectNames == PROVIDER_CLASSES \cup {"Nope"}

(***************************************************************************)
(* The global scope: which wallet objects the extensions injected.         *)
(***************************************************************************)
GlobalNames ==
    {"unisat", "BitcoinProvider", "BitcoinProvider.isMagicEden",
     "XverseProviders", "XverseProviders.BitcoinProvider",
     "okxwallet.bitcoin", "LeatherProvider", "HiroWalletProvider",
     "btc_providers.Leather", "btc_providers.Leather.request",
     "phantom.bitcoin", "wizz",
     "magicEden.bitcoin", "oyl"}

\* a member of an object exists only when the object does
WellFormedWindow(w) ==
    /\ ("BitcoinProvider.isMagicEden" \in w => "BitcoinProvider" \in w)
    /\ ("XverseProviders.BitcoinProvider" \in w => "XverseProviders" \in w)
    /\ ("btc_providers.Leather.request" \in w => "btc_providers.Leather" \in w)

WindowConfigs ==
    {w \in SUBSET GlobalNames : Cardinality(w) <= MaxGlobals /\ WellFormedWindow(w)}

(***************************************************************************)
(* WALLET_INFO[name].detection()                                           *)
(***************************************************************************)
detection(name, w) ==
    CASE name = "UniSat"    -> "unisat" \in w
      [] name = "Xverse"    -> "BitcoinProvider" \in w \/ "XverseProviders" \in w
      [] name = "OKX"       -> "okxwallet.bitcoin" \in w
      [] name = "Leather"   -> \/ "btc_providers.Leather" \in w
                               \/ "LeatherProvider" \in w
                               \/ "HiroWalletProvider" \in w
      [] name = "Phantom"   -> "phantom.bitcoin" \in w
      [] name = "Wizz"      -> "wizz" \in w
      [] name = "MagicEden" -> "magicEden.bitcoin" \in w
      [] name = "Oyl"       -> "oyl" \in w
      [] OTHER              -> FALSE

(***************************************************************************)
(* The adapter constructors: is this.walletInstance set?                   *)
(***************************************************************************)
\* the handle taken for granted
walletInstance_Assumed(name, w) == name \in PROVIDER_CLASSES

walletInstance(name, w) ==
    CASE name = "UniSat"    -> "unisat" \in w
      [] name = "Xverse"    -> \/ "XverseProviders.BitcoinProvider" \in w
                               \/ "BitcoinProvider" \in w
      [] name = "OKX"       -> "okxwallet.bitcoin" \in w
         \* a btc_providers entry without request() is metadata and is skipped
      [] name = "Leather"   -> \/ "LeatherProvider" \in w
                               \/ "HiroWalletProvider" \in w
                               \/ "btc_providers.Leather.request" \in w
      [] name = "Phantom"   -> "phantom.bitcoin" \in w
      [] name = "Wizz"      -> "wizz" \in w
      [] name = "MagicEden" -> \/ "magicEden.bitcoin" \in w
                               \/ "BitcoinProvider.isMagicEden" \in w
      [] name = "Oyl"       -> "oyl" \in w
      [] OTHER              -> FALSE

(***************************************************************************)
(* provider.isInstalled(): !!this.walletInstance, except Xverse, which     *)
(* looks at the globals again.                                             *)
(***************************************************************************)
isInstalled(name, w) ==
    IF name = "Xverse"
    THEN "BitcoinProvider" \in w \/ "XverseProviders" \in w
    ELSE walletInstance(name, w)

(***************************************************************************)
(* detectWallets(): the names whose detection() answers true.              *)
(***************************************************************************)
detectWallets(w) == {name \in PROVIDER_CLASSES : detection(name, w)}

(***************************************************************************)
(* Capability descriptors (this.features).  A descriptor is given by the   *)
(* paths of its leaves: those set to true and those set to false.  A       *)
(* proper prefix of a leaf path is a nested object; any other path is      *)
(* undefined.                                                              *)
(***************************************************************************)
P1(a) == <<a>>
P2(a, b) == <<a, b>>

Leaves1(names) == {P1(n) : n \in names}

UniSatTrue ==
    Leaves1({"connect", "getAddress", "getPublicKey", "getBalance", "getNetwork",
             "switchNetwork", "signMessage", "signPsbt", "signPsbts", "pushPsbt",
             "sendBitcoin", "getInscriptions", "getAllInscriptions", "inscribe"})
        \cup {P2("brc20", "transfer"), P2("brc20", "list"), P2("runes", "send")}
UniSatFalse ==
    Leaves1({"pushTx", "sendInscription"})
        \cup {P2("brc20", "deploy"), P2("brc20", "mint"), P2("runes", "mint"),
              P2("runes", "etch"), P2("atomicals", "transfer"),
              P2("atomicals", "mint"), P2("arc20", "transfer")}

XverseTrue ==
    Leaves1({"connect", "getAddress", "getPublicKey", "getBalance", "signMessage",
             "signTransaction", "signMultipleTransactions", "sendBtcTransaction",
             "getInscriptions", "sendInscription", "createInscription",
             "createRepeatInscriptions", "getCapabilities", "runes",
             "eventListeners"})
XverseFalse ==
    Leaves1({"getUtxos", "getBitcoinUtxos", "networkSwitch", "brc20", "arc20",
             "atomicals"})

OKXTrue ==
    Leaves1({"connect", "getPublicKey", "getBalance", "getNetwork", "signMessage",
             "signPsbt", "signPsbts", "pushPsbt", "pushTx", "sendBitcoin",
             "sendInscription", "getInscriptions", "getAllInscriptions", "inscribe"})
        \cup {P2("brc20", "transfer"), P2("brc20", "deploy"), P2("brc20", "mint")}
OKXFalse ==
    Leaves1({"getAddress", "switchNetwork"})
        \cup {P2("runes", "send"), P2("runes", "mint"), P2("runes", "etch"),
              P2("atomicals", "transfer"), P2("atomicals", "mint"),
              P2("arc20", "transfer")}

LeatherTrue ==
    Leaves1({"connect", "getAddress", "signMessage", "signPsbt", "stacksSupport",
             "structuredData", "authentication", "stacksTransaction",
             "profileUpdate", "getProductInfo", "getURL"})
LeatherFalse ==
    Leaves1({"getPublicKey", "getBalance", "getNetwork", "switchNetwork",
             "signPsbts", "pushPsbt", "pushTx", "sendBitcoin", "sendInscription",
             "getInscriptions", "getAllInscriptions", "inscribe", "brc20", "runes",
             "atomicals", "arc20"})

PhantomTrue ==
    Leaves1({"connect", "getAddress", "getPublicKey", "getBalance", "getNetwork",
             "signMessage", "signPsbt", "sendBitcoin", "eventListeners"})
PhantomFalse == {}

WizzTrue ==
    Leaves1({"connect", "getAddress", "getPublicKey", "getBalance", "getNetwork",
             "switchNetwork", "signMessage", "signPsbt", "pushPsbt", "sendBitcoin",
             "getInscriptions", "getAllInscriptions", "inscribe", "biHelix", "cpfp",
             "mempoolInjection", "bip322"})
        \cup {P2("brc20", "transfer"), P2("brc20", "deploy"), P2("brc20", "mint"),
              P2("runes", "send"), P2("atomicals", "transfer"),
              P2("atomicals", "mint"), P2("arc20", "transfer")}
WizzFalse ==
    Leaves1({"signPsbts", "pushTx", "sendInscription"})
        \cup {P2("runes", "mint"), P2("runes", "etch")}

MagicEdenTrue ==
    Leaves1({"connect", "getAddress", "getNetwork", "signMessage", "signPsbt",
             "signPsbts", "signTransaction", "sendBitcoin", "jwtAuth",
             "hardwareDetection"})
MagicEdenFalse ==
    Leaves1({"getPublicKey", "getBalance", "switchNetwork", "pushPsbt", "pushTx",
             "sendInscription", "getInscriptions", "getAllInscriptions", "inscribe"})
        \cup {P2("brc20", "transfer"), P2("brc20", "deploy"), P2("brc20", "mint"),
              P2("runes", "send"), P2("runes", "mint"), P2("runes", "etch"),
              P2("atomicals", "transfer"), P2("atomicals", "mint"),
              P2("arc20", "transfer")}

OylTrue ==
    Leaves1({"connect", "getAddress", "getBalance", "getNetwork", "switchNetwork",
             "signMessage", "signPsbt", "signPsbts", "pushPsbt", "sendBitcoin",
             "getInscriptions", "getAllInscriptions", "relayProvider"})
OylFalse ==
    Leaves1({"getPublicKey", "pushTx", "sendInscription", "inscribe"})
        \cup {P2("brc20", "transfer"), P2("brc20", "deploy"), P2("brc20", "mint"),
              P2("runes", "send"), P2("runes", "mint"), P2("runes", "etch"),
              P2("atomicals", "transfer"), P2("atomicals", "mint"),
              P2("arc20", "transfer")}

featuresTrue(name) ==
    CASE name = "UniSat"    -> UniSatTrue
      [] name = "Xverse"    -> XverseTrue
      [] name = "OKX"       -> OKXTrue
      [] name = "Leather"   -> LeatherTrue
      [] name = "Phantom"   -> PhantomTrue
      [] name = "Wizz"      -> WizzTrue
      [] name = "MagicEden" -> MagicEdenTrue
      [] name = "Oyl"       -> OylTrue

featuresFalse(name) ==
    CASE name = "UniSat"    -> UniSatFalse
      [] name = "Xverse"    -> XverseFalse
      [] name = "OKX"       -> OKXFalse
      [] name = "Leather"   -> LeatherFalse
      [] name = "Phantom"   -> PhantomFalse
      [] name = "Wizz"      -> WizzFalse
      [] name = "MagicEden" -> MagicEdenFalse
      [] name = "Oyl"       -> OylFalse

IsPrefix(p, q) == Len(p) < Len(q) /\ SubSeq(q, 1, Len(p)) = p

\* the value found at a path of the descriptor
featureNode(name, path) ==
    IF path \in featuresTrue(name) THEN "true"
    ELSE IF path \in featuresFalse(name) THEN "false"
    ELSE IF \E q \in featuresTrue(name) \cup featuresFalse(name) : IsPrefix(path, q)
         THEN "object"
         ELSE "undefined"

(***************************************************************************)
(* supportsMethod(methodPath): walk the parts; step into objects, and stop *)
(* at the first value that is not an object.                               *)
(***************************************************************************)
RECURSIVE supportsWalk(_, _, _, _)
supportsWalk(name, parts, i, at) ==
    \* at = the path of `current`; <<>> is this.features itself
    IF i > Len(parts)
    THEN featureNode(name, at) = "true"
    ELSE IF at = <<>> \/ featureNode(name, at) = "object"
         THEN supportsWalk(name, parts, i + 1, Append(at, parts[i]))
         ELSE featureNode(name, at) = "true"

supportsMethod(name, parts) == supportsWalk(name, parts, 1, <<>>)

(***************************************************************************)
(* Values.  A JavaScript number is [m, e], standing for m / (10^8)^e, so   *)
(* that the division by 100000000 is exact: a satoshi count n is [n, 0]    *)
(* and n satoshis expressed in BTC is [n, 1].                              *)
(***************************************************************************)
SatsPerBTC == 100000000

Num(m, e) == [m |-> m, e |-> e]

\* the same real number in lowest terms
RECURSIVE NumNorm(_)
NumNorm(x) ==
    IF x.m = 0 THEN Num(0, 0)
    ELSE IF x.e > 0 /\ x.m % SatsPerBTC = 0 THEN NumNorm(Num(x.m \div SatsPerBTC, x.e - 1))
    ELSE x

NumEq(x, y) == NumNorm(x) = NumNorm(y)

\* x < 1 and x > 0, for m within 32 bits
NumBelowOne(x) == x.e >= 2 \/ (x.e = 1 /\ x.m < SatsPerBTC) \/ (x.e = 0 /\ x.m < 1)
NumPositive(x) == x.m > 0

DivBySatsPerBTC(x) == Num(x.m, x.e + 1)

\* a || b on numeric fields: undefined and 0 are falsy
Or(a, b) == IF a # UNDEF /\ a # 0 THEN a ELSE b

(***************************************************************************)
(* What a wallet's getBalance answers: a bare number of satoshis, or an    *)
(* object with some of the fields the normalizer knows (UNDEF = absent).   *)
(***************************************************************************)
RawNumber(n) ==
    [num |-> n, confirmed |-> UNDEF, amount |-> UNDEF, total |-> UNDEF,
     unconfirmed |-> UNDEF, pending |-> UNDEF, confirm |-> UNDEF, balance |-> UNDEF]

RawObject(c, u, t) ==
    [num |-> UNDEF, confirmed |-> c, amount |-> UNDEF, total |-> t,
     unconfirmed |-> u, pending |-> UNDEF, confirm |-> UNDEF, balance |-> UNDEF]

IsNumber(raw) == raw.num # UNDEF

(***************************************************************************)
(* normalizeBalance(balance, walletName)                                   *)
(***************************************************************************)
\* the total of the wallet kept when it gives one
normalizeBalance_KeepTotal(balance, walletName) ==
    IF IsNumber(balance)
    THEN [confirmed |-> balance.num, unconfirmed |-> 0, total |-> balance.num]
    ELSE LET confirmed0 == Or(Or(Or(balance.confirmed, balance.amount), balance.total), 0)
             unconfirmed0 == Or(Or(balance.unconfirmed, balance.pending), 0)
         IN  [confirmed |-> confirmed0, unconfirmed |-> unconfirmed0,
              total |-> Or(balance.total, confirmed0 + unconfirmed0)]

normalizeBalance(balance, walletName) ==
    IF IsNumber(balance)
    THEN [confirmed |-> balance.num, unconfirmed |-> 0, total |-> balance.num]
    ELSE LET confirmed0 == Or(Or(Or(balance.confirmed, balance.amount), balance.total), 0)
             unconfirmed0 == Or(Or(balance.unconfirmed, balance.pending), 0)
             confirmed1 ==
                 CASE walletName = "Xverse" -> Or(balance.confirmed, 0)
                   [] walletName = "UniSat" -> Or(Or(balance.confirm, balance.confirmed), 0)
                   [] OTHER -> confirmed0
             unconfirmed1 ==
                 CASE walletName = "Xverse" -> Or(balance.unconfirmed, 0)
                   [] walletName = "UniSat" -> Or(Or(balance.pending, balance.unconfirmed), 0)
                   [] OTHER -> unconfirmed0
         IN  [confirmed |-> confirmed1, unconfirmed |-> unconfirmed1,
              total |-> confirmed1 + unconfirmed1]

(***************************************************************************)
(* What provider.getBalance() hands to the facade (balanceData): a number, *)
(* or an object of which the facade reads .total and .confirmed.           *)
(***************************************************************************)
DataNumber(x) == [kind |-> "number", m |-> x.m, e |-> x.e, total |-> UNDEF, confirmed |-> UNDEF]
DataObject(t, c) == [kind |-> "object", m |-> UNDEF, e |-> 0, total |-> t, confirmed |-> c]

\* Phantom and Magic Eden: the placeholder { confirmed: 0, unconfirmed: 0, total: 0 }
ZeroBalance == DataObject(0, 0)
\* Xverse: { balance: 0, error, available: false }
UnavailableBalance == DataObject(UNDEF, UNDEF)

NullBalance == [m |-> UNDEF, e |-> 0]      \* balance: null

(***************************************************************************)
(* The facade's conversion to BTC (the same code in getBalance and in      *)
(* connect).                                                               *)
(***************************************************************************)
balanceInBTC(balanceData) ==
    IF balanceData.kind = "number"
    THEN LET x == Num(balanceData.m, balanceData.e)
         IN  IF NumBelowOne(x) /\ NumPositive(x) THEN x ELSE DivBySatsPerBTC(x)
    ELSE IF balanceData.kind = "object"
         THEN DivBySatsPerBTC(Num(Or(Or(balanceData.total, balanceData.confirmed), 0), 0))
         ELSE Num(0, 0)

(***************************************************************************)
(* Adapter methods.  A method is described by what its body does, in       *)
(* order: the guards it calls, the capability path it hands to safeCall    *)
(* (<<>> = no safeCall), whether it tests the handle for the method before *)
(* invoking it, the handle method it invokes ("" = none: the body answers  *)
(* from the adapter's own fields or with a placeholder), what it does when *)
(* the test finds no method, and whether it swallows the wallet's error.   *)
(***************************************************************************)
Plan(guards, cap, probe, method, absent, swallow) ==
    [guards |-> guards, cap |-> cap, probe |-> probe, method |-> method,
     absent |-> absent, swallow |-> swallow]

Ops == {"getBalance", "getInscriptions", "getAllInscriptions", "getPublicKey",
        "pushPsbt", "pushTx", "sendInscription"}

\* BaseWalletProvider
BaseMethods(op) ==
    CASE op = "getPublicKey" ->
           Plan({"installed", "connected"}, <<"getPublicKey">>, TRUE, "getPublicKey", "throw", FALSE)
      [] op = "getBalance" ->
           Plan({"installed", "connected"}, <<>>, TRUE, "getBalance", "throw", FALSE)
      [] op = "pushPsbt" ->
           Plan({"installed", "connected"}, <<"pushPsbt">>, TRUE, "pushPsbt", "throw", FALSE)
      [] op = "pushTx" ->
           Plan({"installed", "connected"}, <<"pushTx">>, TRUE, "pushTx", "throw", FALSE)
      [] op = "sendInscription" ->
           Plan({"installed", "connected"}, <<"sendInscription">>, TRUE, "sendInscription", "throw", FALSE)
      [] op = "getInscriptions" ->
           Plan({"installed", "connected"}, <<>>, TRUE, "getInscriptions", "throw", FALSE)
      [] op = "getAddress" ->
           Plan({"installed", "connected"}, <<>>, TRUE, "getAddress", "throw", FALSE)
      [] op = "signMessage" ->
           Plan({"installed", "connected"}, <<>>, TRUE, "signMessage", "throw", FALSE)
      [] op = "signPsbt" ->
           Plan({"installed", "connected"}, <<>>, TRUE, "signPsbt", "throw", FALSE)
      [] op = "sendBitcoin" ->
           Plan({"installed", "connected"}, <<>>, TRUE, "sendBitcoin", "throw", FALSE)
      [] op = "inscribe" ->
           Plan({"installed", "connected"}, <<"inscribe">>, TRUE, "inscribe", "throw", FALSE)

\* a body of the form: this.requireConnected(); return await this.walletInstance.m(...)
Direct(m) == Plan({"connected"}, <<>>, FALSE, m, "throw", FALSE)
\* a body that answers without the handle
Stub == Plan({"connected"}, <<>>, FALSE, "", "throw", FALSE)

UniSatMethods(op) ==
    CASE op = "getPublicKey" -> Direct("getPublicKey")
      [] op = "getAddress" ->     \* this.address answers once the guards passed
           Plan({"installed", "connected"}, <<>>, FALSE, "", "throw", FALSE)
      [] op = "signMessage" -> Direct("signMessage")
      [] op = "signPsbt" -> Direct("signPsbt")
      [] op = "sendBitcoin" -> Direct("sendBitcoin")
      [] op = "inscribe" -> Direct("inscribeTransfer")
      [] op = "getBalance" -> Direct("getBalance")
      [] op = "pushPsbt" -> Direct("pushPsbt")
      [] op = "getInscriptions" -> Direct("getInscriptions")
      [] OTHER -> BaseMethods(op)

XverseMethods(op) ==
    CASE op = "getPublicKey" -> Stub
      [] op = "getAddress" -> Stub
      [] op \in {"signMessage", "sendBitcoin", "inscribe"} -> Direct("request")
      [] op = "getBalance" -> Plan({"connected"}, <<>>, TRUE, "request", "placeholder", TRUE)
      [] op = "getInscriptions" -> Direct("request")
      [] OTHER -> BaseMethods(op)

OKXMethods(op) ==
    CASE op = "getPublicKey" -> Direct("getPublicKey")
      [] op = "getAddress" -> Direct("getAccounts")
      [] op \in {"signMessage", "signPsbt", "sendBitcoin", "inscribe"} -> Direct(op)
      [] op = "getBalance" -> Direct("getBalance")
      [] op = "pushPsbt" -> Direct("pushPsbt")
      [] op = "pushTx" -> Direct("pushTx")
      [] op = "sendInscription" -> Direct("sendInscription")
      [] op = "getInscriptions" -> Direct("getInscriptions")
      [] OTHER -> BaseMethods(op)

LeatherMethods(op) ==
    CASE op = "getAddress" -> Stub
      [] op = "signMessage" -> Direct("signatureRequest")
      [] op = "signPsbt" -> Direct("psbtRequest")
      [] OTHER -> BaseMethods(op)

PhantomMethods(op) ==
    CASE op = "getPublicKey" -> Stub
      [] op = "getAddress" -> Plan({"connected"}, <<>>, FALSE, "getAccounts", "throw", TRUE)
      [] op = "signMessage" -> Direct("signMessage")
      [] op = "signPsbt" -> Plan({"connected"}, <<>>, TRUE, "signPSBT", "throw", FALSE)
      [] op = "sendBitcoin" -> Direct("sendTransfer")
      [] op = "getBalance" -> Stub
      [] OTHER -> BaseMethods(op)

WizzMethods(op) ==
    CASE op = "getPublicKey" -> Direct("getPublicKey")
      [] op = "getAddress" -> Direct("getAccounts")
      [] op \in {"signMessage", "signPsbt", "sendBitcoin", "inscribe"} -> Direct(op)
      [] op = "getBalance" -> Direct("getBalance")
      [] op = "pushPsbt" -> Direct("pushPsbt")
      [] op = "getInscriptions" ->
           Plan({"connected"}, <<>>, TRUE, "getInscriptions", "placeholder", TRUE)
      [] OTHER -> BaseMethods(op)

MagicEdenMethods(op) ==
    CASE op = "getBalance" -> Stub
      [] op = "getAddress" -> Stub
      [] op = "signMessage" -> Direct("signMessage")
      [] op = "signPsbt" -> Direct("signTransaction")
      [] op = "sendBitcoin" -> Direct("sendBtcTransaction")
      [] op = "getInscriptions" -> Stub
      [] OTHER -> BaseMethods(op)

OylMethods(op) ==
    CASE op = "getBalance" -> Plan({"connected"}, <<>>, TRUE, "getBalance", "throw", FALSE)
      [] op = "getAddress" -> Plan({"connected"}, <<>>, FALSE, "getAddresses", "throw", TRUE)
      [] op = "signMessage" -> Direct("signMessage")
      [] op = "signPsbt" -> Direct("signPsbt")
      [] op = "sendBitcoin" -> Plan({"connected"}, <<>>, TRUE, "sendBitcoin", "throw", FALSE)
      [] op = "pushPsbt" -> Direct("pushPsbt")
      [] op = "getInscriptions" ->
           Plan({"connected"}, <<>>, TRUE, "getInscriptions", "placeholder", TRUE)
      [] OTHER -> BaseMethods(op)

adapterMethod(name, op) ==
    CASE name = "UniSat"    -> UniSatMethods(op)
      [] name = "Xverse"    -> XverseMethods(op)
      [] name = "OKX"       -> OKXMethods(op)
      [] name = "Leather"   -> LeatherMethods(op)
      [] name = "Phantom"   -> PhantomMethods(op)
      [] name = "Wizz"      -> WizzMethods(op)
      [] name = "MagicEden" -> MagicEdenMethods(op)
      [] name = "Oyl"       -> OylMethods(op)

(***************************************************************************)
(* A provider instance: the fields of BaseWalletProvider.                  *)
(***************************************************************************)
NoInstance ==
    [name |-> NULL, walletInstance |-> FALSE, isConnected |-> FALSE,
     address |-> NULL, publicKey |-> NULL]

\* the guard left out
requireInstalled_Skipped(prov) == TRUE

requireInstalled(prov) == prov.walletInstance
\* the guard left out
requireConnected_Skipped(prov) == TRUE

requireConnected(prov) == prov.isConnected /\ prov.address \notin {NULL, undefined}

safeCall(prov, cap) == cap = <<>> \/ supportsMethod(prov.name, cap)

(***************************************************************************)
(* Running a method up to its first await on the wallet.  `has` says       *)
(* whether the handle exposes the method.  The answer is either final      *)
(* (st = "resolved" / "rejected") or st = "pending": the wallet was        *)
(* invoked.  touched = the handle members read or invoked.                 *)
(***************************************************************************)
Outcome(st, error, touched) == [st |-> st, error |-> error, touched |-> touched]

methodStart(prov, plan, has) ==
    IF "installed" \in plan.guards /\ ~requireInstalled(prov)
    THEN Outcome("rejected", "NotInstalled", {})
    ELSE IF "connected" \in plan.guards /\ ~requireConnected(prov)
    THEN Outcome("rejected", "NotConnected", {})
    ELSE IF ~safeCall(prov, plan.cap)
    THEN Outcome("rejected", "UnsupportedOperation", {})
    ELSE IF plan.method = ""
    THEN Outcome("resolved", "", {})
    ELSE IF ~has
    THEN IF plan.probe /\ plan.absent = "placeholder"
         THEN Outcome("resolved", "", {<<"read", plan.method>>})
         ELSE Outcome("rejected", IF plan.probe THEN "NotImplemented" ELSE "TypeError",
                      {<<"read", plan.method>>})
    ELSE Outcome("pending", "", {<<"read", plan.method>>, <<"invoke", plan.method>>})

\* ... and resuming it with the wallet's answer
methodFinish(plan, walletThrows) ==
    IF walletThrows /\ ~plan.swallow
    THEN Outcome("rejected", "ProviderError", {})
    ELSE Outcome("resolved", "", {})

\* the whole method, for the operations that leave the store alone
methodRun(prov, plan, has, walletThrows) ==
    LET s == methodStart(prov, plan, has)
    IN  IF s.st = "pending"
        THEN [methodFinish(plan, walletThrows) EXCEPT !.touched = s.touched]
        ELSE s

(***************************************************************************)
(* BaseWalletProvider.getAllInscriptions (no adapter overrides it): the    *)
(* two guards, then this.getInscriptions(cursor, pageSize), whose          *)
(* rejection is not caught.                                                *)
(***************************************************************************)
getAllInscriptions(prov, has, walletThrows) ==
    IF ~requireInstalled(prov) THEN Outcome("rejected", "NotInstalled", {})
    ELSE IF ~requireConnected(prov) THEN Outcome("rejected", "NotConnected", {})
    ELSE methodRun(prov, adapterMethod(prov.name, "getInscriptions"), has, walletThrows)

adapterRun(prov, op, has, walletThrows) ==
    IF op = "getAllInscriptions"
    THEN getAllInscriptions(prov, has, walletThrows)
    ELSE methodRun(prov, adapterMethod(prov.name, op), has, walletThrows)

(***************************************************************************)
(* The wallet's answers to getBalance, and what each adapter's getBalance  *)
(* makes of them.                                                          *)
(***************************************************************************)
RawBalances == {RawNumber(3690), RawObject(100, 50, 150)}

Reply(kind, raw) == [kind |-> kind, raw |-> raw]

\* the wallet throws; it answers a value; (Xverse) it answers an error
\* envelope, or a response of neither envelope format
BalanceReplies(name) ==
    {Reply("throw", RawNumber(0))}
        \cup {Reply("value", r) : r \in RawBalances}
        \cup (IF name = "Xverse"
              THEN {Reply("error", RawNumber(0)), Reply("unexpected", RawNumber(0))}
              ELSE {})

Fetched(st, error, data) == [st |-> st, error |-> error, data |-> data]

\* getBalance bodies that end before any await on the wallet
getBalanceNoWallet(name) ==
    IF name = "Xverse"
    THEN DataNumber(Num(0, 0))       \* no request method: return 0
    ELSE ZeroBalance                 \* Phantom, Magic Eden: the placeholder

getBalanceFinish(name, reply) ==
    CASE name \in {"UniSat", "OKX", "Wizz", "Oyl"} ->
           IF reply.kind = "throw"
           THEN Fetched("rejected", "ProviderError", ZeroBalance)
           ELSE LET n == normalizeBalance(reply.raw, name)
                IN  Fetched("resolved", "", DataObject(n.total, n.confirmed))
      [] name = "Xverse" ->
           IF reply.kind \in {"throw", "error"}
           THEN Fetched("resolved", "", UnavailableBalance)
           ELSE IF reply.kind = "unexpected"
           THEN Fetched("resolved", "", DataNumber(Num(0, 0)))
           ELSE IF reply.raw.total # UNDEF
                THEN Fetched("resolved", "", DataNumber(Num(reply.raw.total, 1)))
                ELSE Fetched("resolved", "", UnavailableBalance)
      [] OTHER ->     \* BaseWalletProvider.getBalance
           IF reply.kind = "throw"
           THEN Fetched("rejected", "ProviderError", ZeroBalance)
           ELSE IF IsNumber(reply.raw)
                THEN Fetched("resolved", "", DataNumber(Num(reply.raw.num, 0)))
                ELSE Fetched("resolved", "",
                       DataNumber(Num(Or(Or(Or(reply.raw.total, reply.raw.confirmed),
                                            reply.raw.balance), 0), 0)))

(***************************************************************************)
(* State.                                                                  *)
(***************************************************************************)
VARIABLES
    window,         \* the injected globals
    currentState,   \* the store
    subscribers,    \* the Set of callbacks, in insertion order
    providers,      \* the provider instances made by createProvider
    connectPc,      \* where the connect() call that made each instance stands
    balCall,        \* a facade getBalance() in flight
    discCall,       \* a facade disconnect() in flight
    handles,        \* per callback: its unsubscribe handle (none / live / called)
    pendingAtIssue, \* per connect call: the handshakes pending when it was issued
    everDisconnect, \* disconnect() was called at some time
    ret,            \* the facade call that settled in the last step
    touched,        \* the handle members read or invoked in the last step
    notified,       \* the callback invocations of the last step, in order
    arg,            \* the arguments of a function or adapter method called directly
    out             \* what that call came to

vars == <<window, currentState, subscribers, providers, connectPc, balCall, discCall,
          handles, pendingAtIssue, everDisconnect, ret, touched, notified, arg, out>>

NoCall == [fn |-> ""]

Disconnected ==
    [isConnected |-> FALSE, walletType |-> NULL, address |-> NULL,
     publicKey |-> NULL, balance |-> NullBalance, provider |-> NoProvider]

Ret(op, st, error, prov, value, list) ==
    [op |-> op, st |-> st, error |-> error, prov |-> prov, value |-> value, list |-> list]

NoRet == Ret("", "", "", NoProvider, NullBalance, {})
Rejected(op, error) == Ret(op, "rejected", error, NoProvider, NullBalance, {})
Resolved(op) == Ret(op, "resolved", "", NoProvider, NullBalance, {})

InitWith(windows) ==
    /\ window \in windows
    /\ currentState = Disconnected
    /\ subscribers = <<>>
    /\ providers = [p \in ProviderIds |-> NoInstance]
    /\ connectPc = [p \in ProviderIds |-> "unused"]
    /\ balCall = [pc |-> "idle", prov |-> NoProvider, error |-> ""]
    /\ discCall = [pc |-> "idle", prov |-> NoProvider]
    /\ handles = [cb \in Callbacks |-> "none"]
    /\ pendingAtIssue = [p \in ProviderIds |-> {}]
    /\ everDisconnect = FALSE
    /\ ret = NoRet
    /\ touched = {}
    /\ notified = <<>>
    /\ arg = NoCall
    /\ out = NoCall

Init == InitWith(WindowConfigs)

(***************************************************************************)
(* setState(newState): currentState = {...currentState, ...newState}, then *)
(* subscribers.forEach(callback => callback(currentState)).                *)
(***************************************************************************)
Merge(state, newState) ==
    [f \in DOMAIN state |-> IF f \in DOMAIN newState THEN newState[f] ELSE state[f]]

\* callback(currentState): the argument is the store's own object (canonical),
\* not a copy of it
forEach(subs, state) ==
    [i \in 1..Len(subs) |-> [cb |-> subs[i], snap |-> state, canonical |-> TRUE]]

setState(state, subs, newState) ==
    LET merged == Merge(state, newState)
    IN  [state |-> merged, notified |-> forEach(subs, merged)]

(***************************************************************************)
(* getState(): a copy of the store.                                        *)
(***************************************************************************)
getState == currentState

SeqToSet(q) == {q[i] : i \in 1..Len(q)}

(***************************************************************************)
(* subscribe(callback) and the handle it returns                           *)
(***************************************************************************)
\* an array push in place of Set.add
setAdd_Push(subs, cb) == Append(subs, cb)

setAdd(subs, cb) == IF cb \in SeqToSet(subs) THEN subs ELSE Append(subs, cb)
setDelete(subs, cb) == SelectSeq(subs, LAMBDA x : x # cb)

subscribe(cb) ==
    /\ subscribers' = setAdd(subscribers, cb)
    /\ handles' = [handles EXCEPT ![cb] = "live"]
    /\ ret' = NoRet /\ touched' = {} /\ notified' = <<>>
    /\ UNCHANGED <<arg, out, window, currentState, providers, connectPc, balCall, discCall,
                   pendingAtIssue, everDisconnect>>

unsubscribe(cb) ==
    /\ handles[cb] # "none"
    /\ subscribers' = setDelete(subscribers, cb)
    /\ handles' = [handles EXCEPT ![cb] = "called"]
    /\ ret' = NoRet /\ touched' = {} /\ notified' = <<>>
    /\ UNCHANGED <<arg, out, window, currentState, providers, connectPc, balCall, discCall,
                   pendingAtIssue, everDisconnect>>

(***************************************************************************)
(* createProvider(walletName): "ok", or the error it throws.               *)
(***************************************************************************)
createProvider(walletName, w) ==
    IF walletName \notin PROVIDER_CLASSES THEN "UnknownWallet"
    ELSE IF ~isInstalled(walletName, w) THEN "NotInstalled"
    ELSE "ok"

(***************************************************************************)
(* The adapters' connect(), up to the await on the wallet: the error it    *)
(* throws before that, or the handle method it invokes.                    *)
(***************************************************************************)
connectMethod(name) ==
    CASE name = "UniSat"    -> "requestAccounts"
      [] name = "Xverse"    -> "request"
      [] name = "OKX"       -> "connect"
      [] name = "Leather"   -> "request"
      [] name = "Phantom"   -> "requestAccounts"
      [] name = "Wizz"      -> "connect"
      [] name = "MagicEden" -> "connect"
      [] name = "Oyl"       -> "getAddresses"

\* MagicEdenProvider.connect: another wallet is present and the handle is not
\* Magic Eden's own (getProvider only ever returns a handle with isMagicEden)
walletConflict(w) ==
    LET hasXverse == "XverseProviders" \in w \/ "BitcoinProvider" \in w
        hasLeather == "LeatherProvider" \in w
        isMagicEden == walletInstance("MagicEden", w)
    IN  (hasXverse \/ hasLeather) /\ ~isMagicEden

connectStart(name, w) ==
    IF ~walletInstance(name, w) THEN "NotInstalled"       \* requireInstalled
    ELSE IF name = "MagicEden" /\ walletConflict(w) THEN "WalletConflict"
    ELSE "ok"

\* what a successful handshake yields: the address and the public key the
\* adapter stores and returns
Addresses == {"bc1p"}
PublicKeys(name) ==
    IF name \in {"OKX", "Phantom", "Wizz", "MagicEden", "Oyl"} THEN {NULL, "pk"} ELSE {NULL}

HandshakeReplies(name) ==
    {[ok |-> FALSE, address |-> NULL, publicKey |-> NULL]}
        \cup {[ok |-> TRUE, address |-> a, publicKey |-> k] :
                a \in Addresses, k \in PublicKeys(name)}

FirstUnused == CHOOSE p \in ProviderIds :
                   /\ connectPc[p] = "unused"
                   /\ \A q \in ProviderIds : q < p => connectPc[q] # "unused"

(***************************************************************************)
(* connect(walletName), first run: createProvider, then provider.connect() *)
(* up to the wallet handshake.                                             *)
(***************************************************************************)
connect(walletName, limit) ==
    /\ Cardinality({p \in ProviderIds : connectPc[p] # "unused"}) < limit
    /\ notified' = <<>>
    /\ LET made == createProvider(walletName, window)
           started == IF made = "ok" THEN connectStart(walletName, window) ELSE made
       IN  IF started # "ok"
           THEN /\ ret' = Rejected("connect", started)
                /\ touched' = {}
                /\ UNCHANGED <<providers, connectPc, pendingAtIssue>>
           ELSE /\ providers' = [providers EXCEPT ![FirstUnused] =
                                    [NoInstance EXCEPT !.name = walletName,
                                                       !.walletInstance = TRUE]]
                /\ connectPc' = [connectPc EXCEPT ![FirstUnused] = "handshake"]
                /\ pendingAtIssue' = [pendingAtIssue EXCEPT ![FirstUnused] =
                                        {q \in ProviderIds : connectPc[q] = "handshake"}]
                /\ ret' = NoRet
                /\ touched' = {<<"invoke", connectMethod(walletName)>>}
    /\ UNCHANGED <<arg, out, window, currentState, subscribers, balCall, discCall, handles,
                   everDisconnect>>

(***************************************************************************)
(* The store after the balance fetch of connect(): the fetched balance in  *)
(* BTC, or null when the fetch failed.                                     *)
(***************************************************************************)
\* the catch branch storing the fetch's placeholder instead of null
balancePatch_Placeholder(fetched) == [balance |-> balanceInBTC(fetched.data)]

balancePatch(fetched) ==
    IF fetched.st = "resolved"
    THEN [balance |-> balanceInBTC(fetched.data)]
    ELSE [balance |-> NullBalance]

\* the patch without the provider instance
connectedPatch_NoProvider(walletName, p, reply) ==
    [isConnected |-> TRUE,
     walletType |-> walletName,
     address |-> reply.address,
     publicKey |-> reply.publicKey]

connectedPatch(walletName, p, reply) ==
    [isConnected |-> TRUE,
     walletType |-> walletName,
     address |-> reply.address,         \* result.address || provider.address
     publicKey |-> reply.publicKey,     \* result.publicKey || provider.publicKey
     provider |-> p]

\* provider.getBalance() as connect() and getBalance() call it: final at once,
\* or pending on the wallet
getBalanceStart(prov, has) ==
    LET s == methodStart(prov, adapterMethod(prov.name, "getBalance"), has)
    IN  [st |-> s.st, error |-> s.error, touched |-> s.touched,
         data |-> getBalanceNoWallet(prov.name)]

(***************************************************************************)
(* connect(), resumed by the wallet's answer to the handshake: the first   *)
(* setState, then provider.getBalance() up to the await.  The await yields *)
(* even when getBalance() settled without the wallet ("balanceReady",      *)
(* "balanceFailed").                                                       *)
(***************************************************************************)
\* the catch branch marking the store disconnected before it rethrows
connectHandshake_ClearsOnFailure(p, reply, has) ==
    /\ connectPc[p] = "handshake"
    /\ IF ~reply.ok
       THEN LET s == setState(currentState, subscribers, [isConnected |-> FALSE])
            IN  /\ connectPc' = [connectPc EXCEPT ![p] = "rejected"]
                /\ ret' = Rejected("connect", "ProviderError")
                /\ touched' = {}
                /\ currentState' = s.state
                /\ notified' = s.notified
                /\ UNCHANGED providers
       ELSE LET prov == [providers[p] EXCEPT !.isConnected = TRUE,
                                             !.address = reply.address,
                                             !.publicKey = reply.publicKey]
                s == setState(currentState, subscribers,
                              connectedPatch(prov.name, p, reply))
                b == getBalanceStart(prov, has)
            IN  /\ providers' = [providers EXCEPT ![p] = prov]
                /\ currentState' = s.state
                /\ notified' = s.notified
                /\ touched' = b.touched
                /\ ret' = NoRet
                /\ connectPc' = [connectPc EXCEPT ![p] =
                                    CASE b.st = "pending" -> "balance"
                                      [] b.st = "resolved" -> "balanceReady"
                                      [] OTHER -> "balanceFailed"]
    /\ UNCHANGED <<arg, out, window, subscribers, balCall, discCall, handles, pendingAtIssue,
                   everDisconnect>>

connectHandshake(p, reply, has) ==
    /\ connectPc[p] = "handshake"
    /\ IF ~reply.ok
       THEN /\ connectPc' = [connectPc EXCEPT ![p] = "rejected"]
            /\ ret' = Rejected("connect", "ProviderError")
            /\ touched' = {} /\ notified' = <<>>
            /\ UNCHANGED <<currentState, providers>>
       ELSE LET prov == [providers[p] EXCEPT !.isConnected = TRUE,
                                             !.address = reply.address,
                                             !.publicKey = reply.publicKey]
                s == setState(currentState, subscribers,
                              connectedPatch(prov.name, p, reply))
                b == getBalanceStart(prov, has)
            IN  /\ providers' = [providers EXCEPT ![p] = prov]
                /\ currentState' = s.state
                /\ notified' = s.notified
                /\ touched' = b.touched
                /\ ret' = NoRet
                /\ connectPc' = [connectPc EXCEPT ![p] =
                                    CASE b.st = "pending" -> "balance"
                                      [] b.st = "resolved" -> "balanceReady"
                                      [] OTHER -> "balanceFailed"]
    /\ UNCHANGED <<arg, out, window, subscribers, balCall, discCall, handles, pendingAtIssue,
                   everDisconnect>>

(***************************************************************************)
(* connect(), resumed after the balance fetch: what the fetch came to, the *)
(* second setState, and the provider returned.                             *)
(***************************************************************************)
AwaitingBalance == {"balance", "balanceReady", "balanceFailed"}

connectFetched(p, reply) ==
    CASE connectPc[p] = "balance" -> getBalanceFinish(providers[p].name, reply)
      [] connectPc[p] = "balanceReady" ->
           Fetched("resolved", "", getBalanceNoWallet(providers[p].name))
      [] OTHER -> Fetched("rejected", "Error", ZeroBalance)

connectBalance(p, reply) ==
    /\ connectPc[p] \in AwaitingBalance
    /\ LET s == setState(currentState, subscribers, balancePatch(connectFetched(p, reply)))
       IN  /\ currentState' = s.state
           /\ notified' = s.notified
    /\ connectPc' = [connectPc EXCEPT ![p] = "resolved"]
    /\ ret' = [Resolved("connect") EXCEPT !.prov = p]
    /\ touched' = {}
    /\ UNCHANGED <<arg, out, window, subscribers, providers, balCall, discCall, handles,
                   pendingAtIssue, everDisconnect>>

(***************************************************************************)
(* provider.disconnect().  BaseWalletProvider tests the handle for a       *)
(* disconnect method, awaits it, then clears isConnected, address and      *)
(* publicKey.  OylProvider invokes the handle without the test and leaves  *)
(* publicKey alone.  When the handle throws, nothing is cleared.           *)
(***************************************************************************)
disconnectProbes(name) == name # "Oyl"

clearedInstance(prov) ==
    IF prov.name = "Oyl"
    THEN [prov EXCEPT !.isConnected = FALSE, !.address = NULL]
    ELSE [prov EXCEPT !.isConnected = FALSE, !.address = NULL, !.publicKey = NULL]

\* up to the await: "pending" on the wallet, or how the method ended without it
providerDisconnectStart(prov, has) ==
    IF has THEN "pending"
    ELSE IF disconnectProbes(prov.name) THEN "cleared"
    ELSE "threw"                      \* walletInstance.disconnect is not a function

\* the balance reset to 0 instead of null
disconnectedPatch_ZeroBalance ==
    [isConnected |-> FALSE, walletType |-> NULL, address |-> NULL,
     publicKey |-> NULL, balance |-> Num(0, 0), provider |-> NoProvider]

disconnectedPatch ==
    [isConnected |-> FALSE, walletType |-> NULL, address |-> NULL,
     publicKey |-> NULL, balance |-> NullBalance, provider |-> NoProvider]

(***************************************************************************)
(* disconnect(), first run: with no provider, the setState at once; else   *)
(* provider.disconnect() up to the await ("settled": it ended without the  *)
(* wallet, and the await only yields).                                     *)
(***************************************************************************)
disconnect(has) ==
    /\ discCall.pc = "idle"
    /\ everDisconnect' = TRUE
    /\ LET p == currentState.provider
           s == setState(currentState, subscribers, disconnectedPatch)
       IN  IF p = NoProvider
           THEN /\ currentState' = s.state
                /\ notified' = s.notified
                /\ ret' = Resolved("disconnect")
                /\ touched' = {}
                /\ UNCHANGED <<providers, discCall>>
           ELSE LET started == providerDisconnectStart(providers[p], has)
                IN  /\ discCall' = [pc |-> IF started = "pending" THEN "pending" ELSE "settled",
                                    prov |-> p]
                    /\ providers' = IF started = "cleared"
                                    THEN [providers EXCEPT ![p] = clearedInstance(@)]
                                    ELSE providers
                    /\ touched' = IF started = "pending"
                                  THEN {<<"read", "disconnect">>, <<"invoke", "disconnect">>}
                                  ELSE {<<"read", "disconnect">>}
                    /\ ret' = NoRet /\ notified' = <<>>
                    /\ UNCHANGED currentState
    /\ UNCHANGED <<arg, out, window, subscribers, connectPc, balCall, handles, pendingAtIssue>>

(***************************************************************************)
(* disconnect(), resumed: the catch swallows a failure, and the store is   *)
(* cleared either way.                                                     *)
(***************************************************************************)
\* without the try / catch around provider.disconnect()
disconnectFinish_NoCatch(walletThrows) ==
    /\ discCall.pc \in {"pending", "settled"}
    /\ IF walletThrows
       THEN /\ ret' = Rejected("disconnect", "ProviderError")
            /\ notified' = <<>>
            /\ UNCHANGED <<currentState, providers>>
       ELSE /\ providers' = IF discCall.pc = "pending"
                            THEN [providers EXCEPT ![discCall.prov] = clearedInstance(@)]
                            ELSE providers
            /\ LET s == setState(currentState, subscribers, disconnectedPatch)
               IN  /\ currentState' = s.state
                   /\ notified' = s.notified
            /\ ret' = Resolved("disconnect")
    /\ discCall' = [pc |-> "idle", prov |-> NoProvider]
    /\ touched' = {}
    /\ UNCHANGED <<arg, out, window, subscribers, connectPc, balCall, handles, pendingAtIssue,
                   everDisconnect>>

disconnectFinish(walletThrows) ==
    /\ discCall.pc \in {"pending", "settled"}
    /\ providers' = IF discCall.pc = "pending" /\ ~walletThrows
                    THEN [providers EXCEPT ![discCall.prov] = clearedInstance(@)]
                    ELSE providers
    /\ LET s == setState(currentState, subscribers, disconnectedPatch)
       IN  /\ currentState' = s.state
           /\ notified' = s.notified
    /\ discCall' = [pc |-> "idle", prov |-> NoProvider]
    /\ ret' = Resolved("disconnect")
    /\ touched' = {}
    /\ UNCHANGED <<arg, out, window, subscribers, connectPc, balCall, handles, pendingAtIssue,
                   everDisconnect>>

(***************************************************************************)
(* The guard every pass-through starts with.                               *)
(***************************************************************************)
\* the guard left out
noWalletConnected_Skipped(state) == FALSE

noWalletConnected(state) == state.provider = NoProvider

(***************************************************************************)
(* getBalance(), first run: the guard, then provider.getBalance() up to    *)
(* the await ("ready" / "failed": it settled without the wallet).          *)
(***************************************************************************)
Idle == [pc |-> "idle", prov |-> NoProvider, error |-> ""]

getBalance(has) ==
    /\ balCall.pc = "idle"
    /\ notified' = <<>>
    /\ IF noWalletConnected(currentState)
       THEN /\ ret' = Rejected("getBalance", "NoWalletConnected")
            /\ touched' = {}
            /\ UNCHANGED balCall
       ELSE IF currentState.provider = NoProvider      \* null.getBalance()
       THEN /\ ret' = Rejected("getBalance", "TypeError")
            /\ touched' = {}
            /\ UNCHANGED balCall
       ELSE LET p == currentState.provider
                b == getBalanceStart(providers[p], has)
            IN  /\ touched' = b.touched
                /\ ret' = NoRet
                /\ balCall' = [pc |-> CASE b.st = "pending" -> "pending"
                                        [] b.st = "resolved" -> "ready"
                                        [] OTHER -> "failed",
                               prov |-> p, error |-> b.error]
    /\ UNCHANGED <<arg, out, window, currentState, subscribers, providers, connectPc, discCall,
                   handles, pendingAtIssue, everDisconnect>>

(***************************************************************************)
(* getBalance(), resumed: the conversion to BTC, setState, and the value   *)
(* returned; or the adapter's rejection passed on.                         *)
(***************************************************************************)
balanceFetched(reply) ==
    CASE balCall.pc = "pending" -> getBalanceFinish(providers[balCall.prov].name, reply)
      [] balCall.pc = "ready" ->
           Fetched("resolved", "", getBalanceNoWallet(providers[balCall.prov].name))
      [] OTHER -> Fetched("rejected", balCall.error, ZeroBalance)

getBalanceResume(reply) ==
    /\ balCall.pc \in {"pending", "ready", "failed"}
    /\ reply \in BalanceReplies(providers[balCall.prov].name)
    /\ LET f == balanceFetched(reply)
           s == setState(currentState, subscribers, [balance |-> balanceInBTC(f.data)])
       IN  IF f.st = "resolved"
           THEN /\ currentState' = s.state
                /\ notified' = s.notified
                /\ ret' = [Resolved("getBalance") EXCEPT !.value = s.state.balance]
           ELSE /\ ret' = Rejected("getBalance", f.error)
                /\ notified' = <<>>
                /\ UNCHANGED currentState
    /\ balCall' = Idle
    /\ touched' = {}
    /\ UNCHANGED <<arg, out, window, subscribers, providers, connectPc, discCall, handles,
                   pendingAtIssue, everDisconnect>>

(***************************************************************************)
(* The pass-throughs that leave the store alone: the guard, then the       *)
(* adapter's method on the provider in the store.                          *)
(***************************************************************************)
passThrough(op, has, walletThrows) ==
    /\ IF noWalletConnected(currentState)
       THEN /\ ret' = Rejected(op, "NoWalletConnected")
            /\ touched' = {}
       ELSE IF currentState.provider = NoProvider      \* null[op]()
       THEN /\ ret' = Rejected(op, "TypeError")
            /\ touched' = {}
       ELSE LET r == adapterRun(providers[currentState.provider], op, has, walletThrows)
            IN  /\ ret' = Ret(op, r.st, r.error, NoProvider, NullBalance, {})
                /\ touched' = r.touched
    /\ notified' = <<>>
    /\ UNCHANGED <<arg, out, window, currentState, subscribers, providers, connectPc, balCall,
                   discCall, handles, pendingAtIssue, everDisconnect>>

(***************************************************************************)
(* detectWallets()                                                         *)
(***************************************************************************)
detect ==
    /\ ret' = [Resolved("detectWallets") EXCEPT !.list = detectWallets(window)]
    /\ touched' = {} /\ notified' = <<>>
    /\ UNCHANGED <<arg, out, window, currentState, subscribers, providers, connectPc, balCall,
                   discCall, handles, pendingAtIssue, everDisconnect>>

(***************************************************************************)
(* The facade under concurrent calls: every handler may be resumed in any  *)
(* order; the window holds at most MaxGlobals globals.                     *)
(***************************************************************************)
Handshake ==
    \E p \in ProviderIds : \E reply \in HandshakeReplies(providers[p].name) :
        \E has \in BOOLEAN : connectHandshake(p, reply, has)

ConnectBalance ==
    \E p \in ProviderIds : \E reply \in BalanceReplies(providers[p].name) :
        connectBalance(p, reply)

GetBalanceResume == \E reply \in BalanceReplies("Xverse") : getBalanceResume(reply)

Next ==
    \/ \E name \in ConnectNames : connect(name, MaxConnects)
    \/ Handshake
    \/ ConnectBalance
    \/ \E has \in BOOLEAN : disconnect(has)
    \/ \E walletThrows \in BOOLEAN : disconnectFinish(walletThrows)
    \/ \E has \in BOOLEAN : getBalance(has)
    \/ GetBalanceResume

Spec == Init /\ [][Next]_vars

(***************************************************************************)
(* The facade called sequentially: a call is issued when no other call is  *)
(* in flight.  All the pass-throughs and detectWallets().                  *)
(***************************************************************************)
Quiescent ==
    /\ \A p \in ProviderIds : connectPc[p] \notin {"handshake"} \cup AwaitingBalance
    /\ balCall.pc = "idle"
    /\ discCall.pc = "idle"

NextOps ==
    \/ Quiescent /\ \E name \in ConnectNames : connect(name, MaxConnects)
    \/ Handshake
    \/ ConnectBalance
    \/ Quiescent /\ \E has \in BOOLEAN : getBalance(has)
    \/ GetBalanceResume
    \/ Quiescent /\ \E op \in Ops \ {"getBalance"} : \E has, walletThrows \in BOOLEAN :
                        passThrough(op, has, walletThrows)
    \/ Quiescent /\ detect

SpecOps == Init /\ [][NextOps]_vars

(***************************************************************************)
(* The store and its subscribers: the concurrent facade with subscribe()   *)
(* and the unsubscribe handles, over two windows: one wallet whose balance *)
(* fetch awaits the wallet, one whose balance is a stub.                   *)
(***************************************************************************)
StoreWindows == {{"unisat"}, {"magicEden.bitcoin"}}

InitStore == InitWith(StoreWindows)

NextStore ==
    \/ \E cb \in Callbacks : subscribe(cb)
    \/ \E cb \in Callbacks : unsubscribe(cb)
    \/ Next

SpecStore == InitStore /\ [][NextStore]_vars

(***************************************************************************)
(* The store with subscribers under successive connects: a connect() may   *)
(* follow one that resolved, and any handshake may fail.                   *)
(***************************************************************************)
NextReconnect ==
    \/ \E cb \in Callbacks : subscribe(cb)
    \/ Quiescent /\ \E name \in ConnectNames : connect(name, MaxRace)
    \/ Handshake
    \/ ConnectBalance

SpecReconnect == InitWith(WindowConfigs) /\ [][NextReconnect]_vars

(***************************************************************************)
(* A subscriber that assigns to a field of the object its callback was     *)
(* handed in the last step.  When that object is the store's own, the      *)
(* assignment is an assignment to the store, and to what every other       *)
(* callback was handed.                                                    *)
(***************************************************************************)
Written == "written"

subscriberWrite(i) ==
    /\ i \in 1..Len(notified)
    /\ currentState' = IF notified[i].canonical
                       THEN [currentState EXCEPT !.address = Written]
                       ELSE currentState
    /\ notified' = [j \in 1..Len(notified) |->
                        IF j = i \/ (notified[i].canonical /\ notified[j].canonical)
                        THEN [notified[j] EXCEPT !.snap.address = Written]
                        ELSE notified[j]]
    /\ UNCHANGED <<arg, out, window, subscribers, providers, connectPc, balCall, discCall, handles,
                   pendingAtIssue, everDisconnect, ret, touched>>

NextAlias ==
    \/ \E i \in 1..MaxCallbacks : subscriberWrite(i)
    \/ NextStore

SpecAlias == InitStore /\ [][NextAlias]_vars

(***************************************************************************)
(* Racing connect() calls: every wallet is injected, and connect() is      *)
(* called for two wallets of different kinds.                              *)
(***************************************************************************)
RaceWallets == {"UniSat", "MagicEden"}

InitRace == InitWith({GlobalNames})

NextRace ==
    \/ \E name \in RaceWallets : connect(name, MaxRace)
    \/ Handshake
    \/ ConnectBalance
    \/ \E has \in BOOLEAN : getBalance(has)
    \/ GetBalanceResume

SpecRace == InitRace /\ [][NextRace]_vars

(***************************************************************************)
(* Functions and adapter methods called directly, not through the facade:  *)
(* the facade stays as constructed, arg holds the call and out its result. *)
(***************************************************************************)
facadeVars ==
    <<window, currentState, subscribers, providers, connectPc, balCall, discCall,
      handles, pendingAtIssue, everDisconnect, ret, touched, notified>>

InitCall(args) ==
    /\ window = {}
    /\ currentState = Disconnected
    /\ subscribers = <<>>
    /\ providers = [p \in ProviderIds |-> NoInstance]
    /\ connectPc = [p \in ProviderIds |-> "unused"]
    /\ balCall = [pc |-> "idle", prov |-> NoProvider, error |-> ""]
    /\ discCall = [pc |-> "idle", prov |-> NoProvider]
    /\ handles = [cb \in Callbacks |-> "none"]
    /\ pendingAtIssue = [p \in ProviderIds |-> {}]
    /\ everDisconnect = FALSE
    /\ ret = NoRet
    /\ touched = {}
    /\ notified = <<>>
    /\ arg \in args
    /\ out = NoCall

(***************************************************************************)
(* safeCall(methodPath, callback, errorMsg) on an adapter of each class.   *)
(* methodPath.split('.') is the sequence of parts.                         *)
(***************************************************************************)
PathParts ==
    {"connect", "getBalance", "getPublicKey", "pushTx", "sendInscription",
     "brc20", "transfer", "deploy", "runes", "x"}

RECURSIVE PathsUpTo(_)
PathsUpTo(n) ==
    IF n = 0 THEN {<<>>}
    ELSE LET shorter == PathsUpTo(n - 1)
         IN  shorter \cup {Append(q, part) : q \in shorter, part \in PathParts}

MethodPaths == PathsUpTo(MaxPathLen) \ {<<>>}

SafeCallArgs ==
    {[fn |-> "safeCall", name |-> name, methodPath |-> path, errorMsg |-> msg] :
        name \in PROVIDER_CLASSES, path \in MethodPaths, msg \in {"", "custom"}}

\* the default message is `${this.name} does not support ${methodPath}`
safeCallRun(name, methodPath, errorMsg) ==
    IF ~supportsMethod(name, methodPath)
    THEN [fn |-> "safeCall", st |-> "rejected", callback |-> FALSE,
          error |-> IF errorMsg # "" THEN <<errorMsg>> ELSE <<name, methodPath>>]
    ELSE [fn |-> "safeCall", st |-> "resolved", callback |-> TRUE, error |-> <<>>]

safeCallApply ==
    /\ arg.fn = "safeCall"
    /\ out' = safeCallRun(arg.name, arg.methodPath, arg.errorMsg)
    /\ arg' = arg
    /\ UNCHANGED facadeVars

nextSafeCall ==
    /\ out.fn = "safeCall"
    /\ arg' \in SafeCallArgs
    /\ out' = NoCall
    /\ UNCHANGED facadeVars

NextGuard == safeCallApply \/ nextSafeCall

SpecGuard == InitCall(SafeCallArgs) /\ [][NextGuard]_vars

(***************************************************************************)
(* One adapter instance driven directly: connect(), disconnect(), the      *)
(* session-requiring methods and the wallet's accountsChanged events.      *)
(* arg.this is the instance (built by the class constructor from the       *)
(* globals), arg.listening says whether setupEventListeners() registered   *)
(* the accountsChanged handler, arg.connecting whether a connect() awaits  *)
(* the wallet; out is the last call and how it ended.                      *)
(***************************************************************************)
Call(fn, st, error, handleTouched) ==
    [fn |-> fn, st |-> st, error |-> error, touched |-> handleTouched]

Adapter(prov, listening, connecting) ==
    [fn |-> "adapter", this |-> prov, listening |-> listening, connecting |-> connecting]

\* new XProvider(): BaseWalletProvider's fields, walletInstance from the globals
newProvider(name, w) ==
    [NoInstance EXCEPT !.name = name, !.walletInstance = walletInstance(name, w)]

(***************************************************************************)
(* What the wallet answers to the connect request, by shape: it throws; it *)
(* answers null; an empty container ([], {}, {addresses: []}); a container *)
(* of the expected layout whose address entry is missing ([undefined], an  *)
(* account object or addresses entry without an address field); the        *)
(* well-formed answer.                                                     *)
(***************************************************************************)
ConnectShapes == {"throw", "null", "empty", "noAddress", "address"}

Settled(prov, st, error) == [this |-> prov, st |-> st, error |-> error]

Connected(prov, address, publicKey) ==
    [prov EXCEPT !.isConnected = TRUE, !.address = address, !.publicKey = publicKey]

\* XProvider.connect() up to the await on the wallet
adapterConnectStart(prov, w) ==
    IF ~requireInstalled(prov) THEN "NotInstalled"
    ELSE IF ~prov.walletInstance THEN "NoHandle"     \* the request on a null handle throws
    ELSE IF prov.name = "MagicEden" /\ walletConflict(w) THEN "WalletConflict"
    ELSE "ok"

\* ... and resumed with the wallet's answer, class by class.
\* UniSat: accounts && accounts.length > 0, then address = accounts[0]
UniSatConnect(prov, shape) ==
    IF shape \in {"null", "empty"}
    THEN Settled(prov, "rejected", "ConnectFailed")
    ELSE Settled(Connected(prov, IF shape = "address" THEN "bc1p" ELSE undefined,
                           prov.publicKey), "resolved", "")

\* Xverse: needs result.addresses and its ordinals and payment entries;
\* address = ordinalsAccount.address
XverseConnect(prov, shape) ==
    IF shape \in {"null", "empty"}
    THEN Settled(prov, "rejected", "ConnectFailed")
    ELSE Settled(Connected(prov, IF shape = "address" THEN "bc1p" ELSE undefined,
                           prov.publicKey), "resolved", "")

\* OKX: address = result.address || result, publicKey = result.publicKey
OKXConnect(prov, shape) ==
    IF shape = "null" THEN Settled(prov, "rejected", "TypeError")
    ELSE IF shape = "address"
    THEN Settled(Connected(prov, "bc1p", "pk"), "resolved", "")
    ELSE Settled(Connected(prov, NotAnAddress, undefined), "resolved", "")

\* Leather: no addresses: throw; address = bitcoinAddress?.address
LeatherConnect(prov, shape) ==
    IF shape = "null" THEN Settled(prov, "rejected", "TypeError")
    ELSE IF shape = "empty" THEN Settled(prov, "rejected", "ConnectFailed")
    ELSE Settled(Connected(prov, IF shape = "address" THEN "bc1p" ELSE undefined,
                           prov.publicKey), "resolved", "")

\* Phantom: every field is checked before anything is stored
PhantomConnect(prov, shape) ==
    IF shape = "address"
    THEN Settled(Connected(prov, "bc1p", "pk"), "resolved", "")
    ELSE Settled(prov, "rejected", "ConnectFailed")

\* Wizz: the array format stores result[0] and only then tests it
WizzConnect(prov, shape) ==
    IF shape \in {"null", "empty"}
    THEN Settled(prov, "rejected", "ConnectFailed")
    ELSE IF shape = "noAddress"
    THEN Settled([prov EXCEPT !.address = undefined], "rejected", "ConnectFailed")
    ELSE Settled(Connected(prov, "bc1p", "pk"), "resolved", "")

\* Magic Eden: address = ordinalsAddress?.address || paymentAddress?.address
MagicEdenConnect(prov, shape) ==
    IF shape \in {"null", "empty"}
    THEN Settled(prov, "rejected", "ConnectFailed")
    ELSE IF shape = "noAddress"
    THEN Settled(Connected(prov, undefined, undefined), "resolved", "")
    ELSE Settled(Connected(prov, "bc1p", "pk"), "resolved", "")

\* Oyl: this.address is assigned only from a taproot or nativeSegwit entry
\* with an address, and tested whatever was assigned
OylConnect(prov, shape) ==
    IF shape = "null" THEN Settled(prov, "rejected", "ConnectFailed")
    ELSE IF shape = "address"
    THEN Settled(Connected(prov, "bc1p", "pk"), "resolved", "")
    ELSE IF prov.address \in {NULL, undefined}
    THEN Settled(prov, "rejected", "ConnectFailed")
    ELSE Settled([prov EXCEPT !.isConnected = TRUE], "resolved", "")

adapterConnectFinish(prov, shape) ==
    IF shape = "throw" THEN Settled(prov, "rejected", "ProviderError")
    ELSE CASE prov.name = "UniSat"    -> UniSatConnect(prov, shape)
           [] prov.name = "Xverse"    -> XverseConnect(prov, shape)
           [] prov.name = "OKX"       -> OKXConnect(prov, shape)
           [] prov.name = "Leather"   -> LeatherConnect(prov, shape)
           [] prov.name = "Phantom"   -> PhantomConnect(prov, shape)
           [] prov.name = "Wizz"      -> WizzConnect(prov, shape)
           [] prov.name = "MagicEden" -> MagicEdenConnect(prov, shape)
           [] prov.name = "Oyl"       -> OylConnect(prov, shape)

(***************************************************************************)
(* setupEventListeners(): the classes that register an accountsChanged     *)
(* handler, and the handler.                                               *)
(***************************************************************************)
EventShapes == {"null", "empty", "noAddress", "address"}

hasAccountsChanged(name) == name \in {"UniSat", "OKX", "Phantom", "Wizz", "MagicEden"}

\* UniSat, OKX and Wizz register the same handler: address = accounts[0]
UniSatAccountsChanged(prov, shape) ==
    IF shape \in {"null", "empty"}
    THEN [prov EXCEPT !.address = NULL, !.publicKey = NULL, !.isConnected = FALSE]
    ELSE [prov EXCEPT !.address = IF shape = "address" THEN "bc1p" ELSE undefined]

\* Phantom: accounts[0].address, accounts[0].publicKey
PhantomAccountsChanged(prov, shape) ==
    IF shape \in {"null", "empty"}
    THEN [prov EXCEPT !.address = NULL, !.publicKey = NULL, !.isConnected = FALSE]
    ELSE IF shape = "address"
    THEN [prov EXCEPT !.address = "bc1p", !.publicKey = "pk"]
    ELSE [prov EXCEPT !.address = undefined, !.publicKey = undefined]

\* Magic Eden: only paymentAddress and ordinalsAddress are rewritten
MagicEdenAccountsChanged(prov, shape) ==
    IF shape \in {"null", "empty"} THEN [prov EXCEPT !.isConnected = FALSE] ELSE prov

accountsChanged(prov, shape) ==
    CASE prov.name = "Phantom"   -> PhantomAccountsChanged(prov, shape)
      [] prov.name = "MagicEden" -> MagicEdenAccountsChanged(prov, shape)
      [] OTHER                   -> UniSatAccountsChanged(prov, shape)

(***************************************************************************)
(* provider.disconnect(), whole: OylProvider guards with requireInstalled. *)
(***************************************************************************)
adapterDisconnect(prov, has, walletThrows) ==
    IF prov.name = "Oyl" /\ ~requireInstalled(prov)
    THEN Settled(prov, "rejected", "NotInstalled")
    ELSE LET s == IF prov.walletInstance THEN providerDisconnectStart(prov, has)
                  ELSE "cleared"      \* this.walletInstance?.disconnect is undefined
         IN  IF s = "threw" THEN Settled(prov, "rejected", "TypeError")
             ELSE IF s = "pending" /\ walletThrows
             THEN Settled(prov, "rejected", "ProviderError")
             ELSE Settled(clearedInstance(prov), "resolved", "")

(***************************************************************************)
(* The session-requiring methods.                                          *)
(***************************************************************************)
SessionOps ==
    {"getAddress", "getBalance", "signMessage", "signPsbt", "sendBitcoin", "pushPsbt",
     "pushTx", "getInscriptions", "getAllInscriptions", "inscribe"}

(***************************************************************************)
(* The calls on the instance.                                              *)
(***************************************************************************)
setupEventListeners ==
    /\ arg.fn = "adapter"
    /\ ~arg.listening
    /\ arg' = [arg EXCEPT !.listening =
                   isInstalled(arg.this.name, window) /\ arg.this.walletInstance
                       /\ hasAccountsChanged(arg.this.name)]
    /\ out' = Call("setupEventListeners", "resolved", "", {})
    /\ UNCHANGED facadeVars

adapterConnect ==
    /\ arg.fn = "adapter"
    /\ ~arg.connecting
    /\ LET s == adapterConnectStart(arg.this, window)
       IN  IF s = "ok"
           THEN /\ arg' = [arg EXCEPT !.connecting = TRUE]
                /\ out' = Call("connect", "pending", "", {connectMethod(arg.this.name)})
           ELSE /\ arg' = arg
                /\ out' = Call("connect", "rejected", s, {})
    /\ UNCHANGED facadeVars

adapterConnectReply ==
    /\ arg.fn = "adapter"
    /\ arg.connecting
    /\ \E shape \in ConnectShapes :
          LET s == adapterConnectFinish(arg.this, shape)
          IN  /\ arg' = [arg EXCEPT !.this = s.this, !.connecting = FALSE]
              /\ out' = Call("connect", s.st, s.error, {})
    /\ UNCHANGED facadeVars

adapterDisconnectCall ==
    /\ arg.fn = "adapter"
    /\ \E has \in BOOLEAN, walletThrows \in BOOLEAN :
          LET s == adapterDisconnect(arg.this, has, walletThrows)
          IN  /\ arg' = [arg EXCEPT !.this = s.this]
              /\ out' = Call("disconnect", s.st, s.error, {})
    /\ UNCHANGED facadeVars

accountsChangedEvent ==
    /\ arg.fn = "adapter"
    /\ arg.listening
    /\ \E shape \in EventShapes :
          /\ arg' = [arg EXCEPT !.this = accountsChanged(arg.this, shape)]
          /\ out' = Call("accountsChanged", shape, "", {})
    /\ UNCHANGED facadeVars

sessionCall ==
    /\ arg.fn = "adapter"
    /\ \E op \in SessionOps, has \in BOOLEAN, walletThrows \in BOOLEAN :
          LET s == adapterRun(arg.this, op, has, walletThrows)
          IN  out' = Call(op, s.st, s.error, s.touched)
    /\ arg' = arg
    /\ UNCHANGED facadeVars

InitAdapter ==
    /\ window \in WindowConfigs
    /\ currentState = Disconnected
    /\ subscribers = <<>>
    /\ providers = [p \in ProviderIds |-> NoInstance]
    /\ connectPc = [p \in ProviderIds |-> "unused"]
    /\ balCall = [pc |-> "idle", prov |-> NoProvider, error |-> ""]
    /\ discCall = [pc |-> "idle", prov |-> NoProvider]
    /\ handles = [cb \in Callbacks |-> "none"]
    /\ pendingAtIssue = [p \in ProviderIds |-> {}]
    /\ everDisconnect = FALSE
    /\ ret = NoRet
    /\ touched = {}
    /\ notified = <<>>
    /\ \E name \in PROVIDER_CLASSES : arg = Adapter(newProvider(name, window), FALSE, FALSE)
    /\ out = Call("", "", "", {})

NextAdapter ==
    \/ setupEventListeners
    \/ adapterConnect
    \/ adapterConnectReply
    \/ adapterDisconnectCall
    \/ accountsChangedEvent
    \/ sessionCall

SpecAdapter == InitAdapter /\ [][NextAdapter]_vars

(***************************************************************************)
(* BaseWalletProvider.getAllInscriptions, page by page, on a connected     *)
(* instance.  arg is the page source behind this.getInscriptions: it       *)
(* answers a full page to the first `full` requests and then `last` items  *)
(* (nothing after that), or a full page to every request.  out is the      *)
(* call: the cursor, pageCount, the cursors requested so far, the lengths  *)
(* of the pages pushed onto allInscriptions, allInscriptions.length, and   *)
(* whether the warning was logged.                                         *)
(***************************************************************************)
pageSize == 100
maxPages == 100

LastPageSizes == {0, 1, pageSize - 1}

PageSource(full, last, always) ==
    [fn |-> "getAllInscriptions", full |-> full, last |-> last, always |-> always]

PageSources ==
    {PageSource(n, k, FALSE) : n \in 0..MaxFullPages, k \in LastPageSizes}
        \cup {PageSource(0, 0, TRUE)}

\* inscriptions.length of the answer to the i-th request, counting from 0
pageLength(src, i) ==
    IF src.always \/ i < src.full THEN pageSize
    ELSE IF i = src.full THEN src.last
    ELSE 0

\* the loop condition; the last-page test; the test before the warning
withinCap(pageCount) == pageCount < maxPages

\* the short page not taken for the last one
lastPage_Never(length) == FALSE

lastPage(length) == length < pageSize

\* the warning never logged
capReached_Never(pageCount) == FALSE

capReached(pageCount) == pageCount >= maxPages

Paging(pc, cursor, pageCount, requests, pages, length, warned) ==
    [fn |-> "getAllInscriptions", pc |-> pc, cursor |-> cursor, pageCount |-> pageCount,
     requests |-> requests, pages |-> pages, length |-> length, warned |-> warned]

\* past the loop: the warning, then return allInscriptions
pagingReturn(o) == [o EXCEPT !.pc = "resolved", !.warned = capReached(o.pageCount)]

\* the top of the loop: the next this.getInscriptions(cursor, pageSize), or out
pagingRequest(o) ==
    IF withinCap(o.pageCount)
    THEN [o EXCEPT !.pc = "awaiting", !.requests = Append(@, o.cursor)]
    ELSE pagingReturn(o)

\* the rest of the loop body, with the page's length
pagingPage(o, length) ==
    IF length = 0 THEN pagingReturn(o)
    ELSE LET pushed == [o EXCEPT !.pages = Append(@, length), !.length = @ + length]
         IN  IF lastPage(length) THEN pagingReturn(pushed)
             ELSE pagingRequest([pushed EXCEPT !.cursor = @ + pageSize,
                                               !.pageCount = @ + 1])

getAllInscriptionsCall ==
    /\ arg.fn = "getAllInscriptions"
    /\ out = NoCall
    /\ out' = pagingRequest(Paging("", 0, 0, <<>>, <<>>, 0, FALSE))
    /\ arg' = arg
    /\ UNCHANGED facadeVars

pageReply ==
    /\ out.fn = "getAllInscriptions"
    /\ out.pc = "awaiting"
    /\ out' = pagingPage(out, pageLength(arg, Len(out.requests) - 1))
    /\ arg' = arg
    /\ UNCHANGED facadeVars

nextPageSource ==
    /\ out.fn = "getAllInscriptions"
    /\ out.pc = "resolved"
    /\ arg' \in PageSources
    /\ out' = NoCall
    /\ UNCHANGED facadeVars

NextPages == getAllInscriptionsCall \/ pageReply \/ nextPageSource

SpecPages == InitCall(PageSources) /\ [][NextPages]_vars

\* the wallet answers every request
SpecPagesLive == SpecPages /\ WF_vars(pageReply)

(***************************************************************************)
(* normalizeBalance applied to balance objects whose fields are absent or  *)
(* small satoshi counts, and to bare numbers, under each wallet name.      *)
(***************************************************************************)
FieldValues == {UNDEF} \cup (0..MaxSats)

BalanceObjects ==
    {[num |-> UNDEF, confirmed |-> c, amount |-> a, total |-> t, unconfirmed |-> u,
      pending |-> p, confirm |-> f, balance |-> UNDEF] :
        c \in FieldValues, a \in FieldValues, t \in FieldValues,
        u \in FieldValues, p \in FieldValues, f \in FieldValues}

NormalizeArgs ==
    {[fn |-> "normalizeBalance", balance |-> b, walletName |-> name] :
        b \in BalanceObjects \cup {RawNumber(n) : n \in 0..MaxSats},
        name \in PROVIDER_CLASSES}

normalizeBalanceApply ==
    /\ arg.fn = "normalizeBalance"
    /\ out = NoCall
    /\ out' = [fn |-> "normalizeBalance",
               value |-> normalizeBalance(arg.balance, arg.walletName)]
    /\ arg' = arg
    /\ UNCHANGED facadeVars

SpecBalance == InitCall(NormalizeArgs) /\ [][normalizeBalanceApply]_vars

(***************************************************************************)
(* The facade's getBalance() on a store connected to each wallet whose     *)
(* adapter asks the wallet for the balance, resumed with the wallet's      *)
(* answer for a balance of arg.total satoshis: the bare number, or         *)
(* {confirmed, unconfirmed, total} (to Xverse, inside the response         *)
(* envelope).  out is the value the call resolves to.                      *)
(***************************************************************************)
WalletTotals == {btc * SatsPerBTC + sats : btc \in 0..MaxBTC, sats \in {0, 1, 3690}}

BalanceWallets == PROVIDER_CLASSES \ {"Phantom", "MagicEden"}

ConvertArgs ==
    {[fn |-> "getBalance", name |-> name, total |-> t,
      reply |-> Reply("value", RawObject(t, 0, t))] :
        name \in BalanceWallets, t \in WalletTotals}
    \cup
    {[fn |-> "getBalance", name |-> name, total |-> t,
      reply |-> Reply("value", RawNumber(t))] :
        name \in BalanceWallets \ {"Xverse"}, t \in WalletTotals}

getBalanceConvert ==
    /\ arg.fn = "getBalance"
    /\ out = NoCall
    /\ ~noWalletConnected(currentState)
    /\ LET f == getBalanceFinish(arg.name, arg.reply)
           s == setState(currentState, subscribers, [balance |-> balanceInBTC(f.data)])
       IN  /\ f.st = "resolved"
           /\ currentState' = s.state
           /\ notified' = s.notified
           /\ out' = [fn |-> "getBalance", st |-> "resolved",
                      value |-> balanceInBTC(f.data)]
    /\ arg' = arg
    /\ UNCHANGED <<window, subscribers, providers, connectPc, balCall, discCall, handles,
                   pendingAtIssue, everDisconnect, ret, touched>>

\* after connect(arg.name) resolved
InitConnected(args) ==
    /\ arg \in args
    /\ out = NoCall
    /\ window \in {w \in WindowConfigs : walletInstance(arg.name, w)}
    /\ providers = [p \in ProviderIds |->
                       IF p = 1
                       THEN Connected(newProvider(arg.name, window), "bc1p", NULL)
                       ELSE NoInstance]
    /\ currentState = Merge(Disconnected,
                            connectedPatch(arg.name, 1,
                                           [address |-> "bc1p", publicKey |-> NULL]))
    /\ subscribers = <<>>
    /\ connectPc = [p \in ProviderIds |-> IF p = 1 THEN "resolved" ELSE "unused"]
    /\ balCall = [pc |-> "idle", prov |-> NoProvider, error |-> ""]
    /\ discCall = [pc |-> "idle", prov |-> NoProvider]
    /\ handles = [cb \in Callbacks |-> "none"]
    /\ pendingAtIssue = [p \in ProviderIds |-> {}]
    /\ everDisconnect = FALSE
    /\ ret = NoRet
    /\ touched = {}
    /\ notified = <<>>

InitConvert == InitConnected(ConvertArgs)

SpecConvert == InitConvert /\ [][getBalanceConvert]_vars


(***************************************************************************)
(* The facade's sendBitcoin(to, amount), pushPsbt(hex) and pushTx(raw) on  *)
(* a store connected to each wallet: the guard, then the adapter's method  *)
(* with the caller's arguments.  The recipient is a well-formed address    *)
(* and the provider holds a payment address.  out records how the call     *)
(* settled, how many times the wallet's method was invoked, whether that   *)
(* invocation failed, and (sendBitcoin) the amount the wallet was handed,   *)
(* a number [m, e] as above: amount * 100000000 is [amount, -1].           *)
(***************************************************************************)
amountThreshold == 100000

\* MagicEdenProvider.sendBitcoin: amount > 100000 ? amount : Math.floor(amount * 100000000)
MagicEdenAmountSats(amount) ==
    IF amount > amountThreshold THEN Num(amount, 0) ELSE Num(amount, -1)

\* the amount argument of the wallet's send method
amountSats(name, amount) ==
    IF name = "MagicEden" THEN MagicEdenAmountSats(amount) ELSE Num(amount, 0)

SendOps == {"sendBitcoin", "pushPsbt", "pushTx"}

Amounts ==
    (1..MaxSats)
        \cup {amountThreshold - d : d \in 0..MaxSats}
        \cup {amountThreshold + d : d \in 1..MaxSats}

SendArgs ==
    {[fn |-> "sendBitcoin", name |-> name, amount |-> a] :
        name \in PROVIDER_CLASSES, a \in Amounts}
    \cup
    {[fn |-> op, name |-> name, amount |-> UNDEF] :
        op \in SendOps \ {"sendBitcoin"}, name \in PROVIDER_CLASSES}

Invocations(t) == Cardinality({x \in t : x[1] = "invoke"})

\* the wallet answers, or throws, or (Xverse's request) answers an error
\* envelope {status: 'error', error}
SendReplies(plan) ==
    {"value", "throw"} \cup (IF plan.method = "request" THEN {"error"} ELSE {})

\* XverseProvider.sendBitcoin returns response.txid of whatever request()
\* answered; no body of the three looks for an error envelope
sendFinish(plan, reply) == methodFinish(plan, reply = "throw")

Sent(fn, r, failed, handed) ==
    [fn |-> fn, st |-> r.st, error |-> r.error, invocations |-> Invocations(r.touched),
     failed |-> failed, handed |-> handed]

sendCall ==
    /\ arg.fn \in SendOps
    /\ out = NoCall
    /\ \E has \in BOOLEAN :
         IF noWalletConnected(currentState)
         THEN out' = Sent(arg.fn, Outcome("rejected", "NoWalletConnected", {}), FALSE,
                          Num(UNDEF, 0))
         ELSE LET prov == providers[currentState.provider]
                  plan == adapterMethod(prov.name, arg.fn)
                  s == methodStart(prov, plan, has)
                  invoked == s.st = "pending"
              IN  \E reply \in SendReplies(plan) :
                    out' = Sent(arg.fn,
                              IF invoked
                              THEN [sendFinish(plan, reply) EXCEPT !.touched = s.touched]
                              ELSE s,
                              invoked /\ reply # "value",
                              IF invoked /\ arg.fn = "sendBitcoin"
                              THEN amountSats(prov.name, arg.amount)
                              ELSE Num(UNDEF, 0))
    /\ arg' = arg
    /\ UNCHANGED facadeVars

SpecSend == InitConnected(SendArgs) /\ [][sendCall]_vars


(***************************************************************************)
(* The address each adapter's connect() keeps as provider.address out of   *)
(* the addresses the wallet answered.  An entry is a taproot (ordinals)    *)
(* address, a native-segwit (payment) address, or an address of another    *)
(* kind; the wallet lists them in any order.  "" = connect() throws.       *)
(***************************************************************************)
MaxAddresses == 2

AddressKinds == {"ordinals", "payment", "other"}

addressOf(kind) ==
    CASE kind = "ordinals" -> "bc1p"
      [] kind = "payment" -> "bc1q"
      [] OTHER -> "SP"

AddressLists ==
    UNION {[1..n -> AddressKinds] : n \in 0..MaxAddresses}

\* addresses.find(a => a.purpose === kind): the first such entry's address
find(addresses, kind) ==
    LET hits == {i \in 1..Len(addresses) : addresses[i] = kind}
    IN  IF hits = {} THEN undefined
        ELSE addressOf(addresses[CHOOSE i \in hits : \A j \in hits : i <= j])

OrElse(a, b) == IF a = undefined THEN b ELSE a

XverseAddress(addresses) ==
    IF find(addresses, "ordinals") = undefined \/ find(addresses, "payment") = undefined
    THEN ""
    ELSE find(addresses, "ordinals")

LeatherAddress(addresses) ==
    IF Len(addresses) = 0 THEN ""
    ELSE OrElse(find(addresses, "payment"), addressOf(addresses[1]))

PhantomAddress(addresses) ==
    IF Len(addresses) = 0 THEN "" ELSE addressOf(addresses[1])

MagicEdenAddress(addresses) ==
    IF find(addresses, "payment") = undefined /\ find(addresses, "ordinals") = undefined
    THEN ""
    ELSE OrElse(find(addresses, "ordinals"), find(addresses, "payment"))

\* the wallet answers {taproot, nativeSegwit}; this.address is null on the
\* instance the facade has just made
OylAddress(addresses) ==
    LET taproot == find(addresses, "ordinals")
        nativeSegwit == find(addresses, "payment")
        address == OrElse(taproot, nativeSegwit)
    IN  IF address = undefined THEN "" ELSE address

AddressWallets == {"Xverse", "Leather", "Phantom", "MagicEden", "Oyl"}

connectAddress(name, addresses) ==
    CASE name = "Xverse" -> XverseAddress(addresses)
      [] name = "Leather" -> LeatherAddress(addresses)
      [] name = "Phantom" -> PhantomAddress(addresses)
      [] name = "MagicEden" -> MagicEdenAddress(addresses)
      [] name = "Oyl" -> OylAddress(addresses)

AddressArgs ==
    {[fn |-> "connect", name |-> name, addresses |-> a] :
        name \in AddressWallets, a \in AddressLists}

connectAddressApply ==
    /\ arg.fn = "connect"
    /\ out = NoCall
    /\ LET address == connectAddress(arg.name, arg.addresses)
       IN  out' = [fn |-> "connect",
                   st |-> IF address = "" THEN "rejected" ELSE "resolved",
                   address |-> IF address = "" THEN NULL ELSE address]
    /\ arg' = arg
    /\ UNCHANGED facadeVars

SpecAddress == InitCall(AddressArgs) /\ [][connectAddressApply]_vars


(***************************************************************************)
(* The facade operations that stand behind a capability flag, on a store   *)
(* connected to each wallet: the guard, then currentState.provider[op]().  *)
(* out tells whether the call reached a method of the adapter.             *)
(***************************************************************************)
\* the capability path of each of these facade operations
featurePath(op) ==
    CASE op = "sendRunes" -> P2("runes", "send")
      [] op = "inscribeTransfer" -> P2("brc20", "transfer")
      [] OTHER -> P1(op)

FeatureOps ==
    {"signPsbt", "signPsbts", "pushPsbt", "pushTx", "sendInscription", "inscribe",
     "getInscriptions", "sendRunes", "inscribeTransfer"}

\* the methods of BaseWalletProvider among them, and the ones a class adds
ClassMethods(name) ==
    {"signPsbt", "signPsbts", "pushPsbt", "pushTx", "sendInscription", "inscribe",
     "getInscriptions"}
        \cup (CASE name = "UniSat" -> {"inscribeTransfer", "sendRunes"}
                [] name = "OKX" -> {"inscribeTransfer"}
                [] OTHER -> {})

DispatchArgs == {[fn |-> op, name |-> name] : op \in FeatureOps, name \in PROVIDER_CLASSES}

dispatch ==
    /\ arg.fn \in FeatureOps
    /\ out = NoCall
    /\ out' = [fn |-> arg.fn,
               st |-> IF noWalletConnected(currentState) THEN "rejected" ELSE
                      IF arg.fn \in ClassMethods(currentState.walletType)
                      THEN "dispatched" ELSE "rejected",
               error |-> IF noWalletConnected(currentState) THEN "NoWalletConnected" ELSE
                         IF arg.fn \in ClassMethods(currentState.walletType) THEN ""
                         ELSE IF arg.fn = "inscribeTransfer"
                              THEN "NotSupported"    \* the facade's typeof test
                              ELSE "TypeError"]      \* provider[op] is not a function
    /\ arg' = arg
    /\ UNCHANGED facadeVars

SpecDispatch == InitConnected(DispatchArgs) /\ [][dispatch]_vars

(***************************************************************************)
(* Properties.                                                             *)
(***************************************************************************)

\* C1: when connect(A) and then connect(B) were issued before A's handshake
\* resolved and both calls have resolved, the store names B: walletType is
\* B's wallet and provider is B's instance.  (Checked under SpecRace.)
C1_LastConnectWins ==
    \A a, b \in ProviderIds :
        (/\ a \in pendingAtIssue[b]
         /\ providers[a].name # providers[b].name
         /\ connectPc[a] = "resolved"
         /\ connectPc[b] = "resolved")
            => (currentState.walletType = providers[b].name /\ currentState.provider = b)

\* C2: at no time are two provider instances made by the facade both in the
\* connected state (the previous provider is disconnected before the new one
\* is stored).  (Checked under SpecRace.)
C2_OneConnectedProvider ==
    Cardinality({p \in ProviderIds : providers[p].isConnected}) <= 1

\* C3: a facade operation whose capability path the active wallet's
\* descriptor declares false settles as rejected with the
\* unsupported-operation error, and no member of the wallet handle was read
\* or invoked.  (Checked under SpecOps.)
C3_DeclaredFalseRejects ==
    \A op \in Ops :
        (/\ ret.op = op
         /\ currentState.isConnected
         /\ currentState.provider # NoProvider
         /\ P1(op) \in featuresFalse(providers[currentState.provider].name))
            => (ret.st = "rejected" /\ ret.error = "UnsupportedOperation" /\ touched = {})

\* C4: a pass-through called while store.provider is null rejects with
\* 'No wallet connected'; no handle member is read or invoked, the store and
\* the provider instances stay as they are, and no subscriber is notified.
\* (Checked under SpecOps.)
C4_NoWalletConnected ==
    [][LET refused(op) ==
               /\ ret' = Rejected(op, "NoWalletConnected")
               /\ touched' = {}
               /\ notified' = <<>>
               /\ currentState' = currentState
               /\ providers' = providers
       IN  currentState.provider = NoProvider =>
               /\ \A op \in Ops \ {"getBalance"} : \A has, walletThrows \in BOOLEAN :
                      passThrough(op, has, walletThrows) => refused(op)
               /\ \A has \in BOOLEAN : getBalance(has) => refused("getBalance")]_vars

C4_Witness ==
    /\ currentState.provider = NoProvider
    /\ ret = Rejected("pushPsbt", "NoWalletConnected")

\* C5: at the step of connect() that follows a failed balance fetch (the
\* handshake having succeeded), the call resolves with its provider, only
\* the balance of the store changes and it becomes null, the store is handed
\* to every subscriber, and - the store still naming this call's provider -
\* isConnected is true and walletType and address are the new wallet's.
\* (Checked under SpecStore.)
C5_BalanceFailureKeepsConnection ==
    [][\A p \in ProviderIds : \A reply \in BalanceReplies(providers[p].name) :
           (connectBalance(p, reply) /\ connectFetched(p, reply).st = "rejected")
               => (/\ ret' = [Resolved("connect") EXCEPT !.prov = p]
                   /\ currentState' = [currentState EXCEPT !.balance = NullBalance]
                   /\ currentState.provider = p =>
                          /\ currentState'.isConnected
                          /\ currentState'.walletType = providers[p].name
                          /\ currentState'.address \in Addresses
                   /\ \A cb \in SeqToSet(subscribers) :
                          \E i \in 1..Len(notified') :
                              notified'[i].cb = cb /\ notified'[i].snap = currentState')]_vars

C5_Witness ==
    /\ ret.op = "connect" /\ ret.st = "resolved"
    /\ currentState.provider = ret.prov
    /\ currentState.isConnected
    /\ currentState.walletType = "UniSat"
    /\ currentState.balance = NullBalance
    /\ notified # <<>>
    /\ notified[Len(notified)].snap = currentState

\* C6: an assignment a subscriber makes to the object its callback was
\* handed is not visible through getState(), nor in what another callback
\* was handed.  (Checked under SpecAlias.)
C6_SnapshotIsolated ==
    /\ getState.address # Written
    /\ \A i, j \in 1..Len(notified) :
           (i # j /\ notified[i].snap.address = Written)
               => notified[j].snap.address # Written

\* C7: a step that writes the store invokes every subscribed callback
\* exactly once, with the store as the write leaves it, within that step; a
\* callback that is not subscribed, or whose unsubscribe handle has been
\* called, is not invoked.  (Checked under SpecStore.)
C7_EachSubscriberOncePerWrite ==
    [][LET Count(cb) == Cardinality({i \in 1..Len(notified') : notified'[i].cb = cb})
           wrote == \/ currentState' # currentState
                    \/ ret'.st = "resolved"
                    \/ \E p \in ProviderIds :
                           connectPc[p] = "handshake" /\ connectPc'[p] \in AwaitingBalance
       IN  /\ \A cb \in Callbacks :
                  /\ cb \notin SeqToSet(subscribers) => Count(cb) = 0
                  /\ handles[cb] = "called" => Count(cb) = 0
                  /\ cb \in SeqToSet(subscribers) => Count(cb) = (IF wrote THEN 1 ELSE 0)
           /\ \A i \in 1..Len(notified') : notified'[i].snap = currentState']_vars

C7_Witness ==
    /\ Len(subscribers) = 1
    /\ \E cb \in Callbacks : handles[cb] = "called"
    /\ Len(notified) = 1
    /\ notified[1].snap = currentState
    /\ currentState.isConnected

\* C8: disconnect() called on the disconnected store (no provider, every
\* field at its initial value) resolves, reads and invokes no handle member,
\* and leaves the store, the provider instances and the calls in flight as
\* they were.  (Checked under Spec.)
C8_DisconnectWhenDisconnected ==
    [][\A has \in BOOLEAN :
           (currentState = Disconnected /\ disconnect(has))
               => (/\ ret' = Resolved("disconnect")
                   /\ touched' = {}
                   /\ currentState' = currentState
                   /\ providers' = providers
                   /\ discCall' = discCall)]_vars

C8_Witness ==
    /\ ret = Resolved("disconnect")
    /\ touched = {}
    /\ currentState = Disconnected
    /\ \A p \in ProviderIds : connectPc[p] = "unused"

\* C9: the step at which disconnect() settles leaves the store equal to the
\* disconnected snapshot and the call resolved, whether the provider's own
\* disconnect succeeded, threw, or was never reached; disconnect() never
\* rejects.  (Checked under Spec.)
C9_DisconnectClearsStore ==
    [][/\ \A walletThrows \in BOOLEAN :
              disconnectFinish(walletThrows)
                  => (ret' = Resolved("disconnect") /\ currentState' = Disconnected)
       /\ \A has \in BOOLEAN :
              disconnect(has)
                  => (/\ ret'.st # "rejected"
                      /\ ret'.st = "resolved" => currentState' = Disconnected)
       /\ ret'.op = "disconnect" => ret'.st = "resolved"]_vars

C9_Witness ==
    /\ ret = Resolved("disconnect")
    /\ currentState = Disconnected
    /\ \E p \in ProviderIds : providers[p].isConnected /\ providers[p].name = "Oyl"

\* C10: with nothing injected, detectWallets() answers the empty list, and
\* connect(name), for each of the eight wallet names, rejects as not
\* installed, invokes no handle member, makes no provider and leaves the
\* store disconnected.  (Checked under SpecOps.)
C10_NothingInjected ==
    [][window = {} =>
           /\ detect => ret'.list = {}
           /\ \A name \in PROVIDER_CLASSES :
                  connect(name, MaxConnects)
                      => (/\ ret' = Rejected("connect", "NotInstalled")
                          /\ touched' = {}
                          /\ providers' = providers
                          /\ currentState' = Disconnected)
           /\ currentState' = Disconnected]_vars

C10_Witness ==
    /\ window = {}
    /\ ret = Rejected("connect", "NotInstalled")
    /\ currentState = Disconnected

\* C11: safeCall(path, callback) rejects with an error naming the wallet
\* and the path, and does not run the callback, whenever the path does not
\* lead to a leaf of the descriptor that is true: it leads to false, to a
\* nested object, to nothing, or below a boolean leaf.  (Checked under
\* SpecGuard.)
C11_GuardRejectsUnlessTrueLeaf ==
    (out.fn = "safeCall" /\ arg.errorMsg = "" /\ arg.methodPath \notin featuresTrue(arg.name))
        => (/\ out.st = "rejected"
            /\ ~out.callback
            /\ out.error = <<arg.name, arg.methodPath>>)

\* C12: in every reachable state of an adapter instance (after any connects,
\* disconnects and accountsChanged events, whatever shape the wallet answers
\* with), isConnected = true implies that address is a non-null, defined
\* address.  (Checked under SpecAdapter.)
C12_ConnectedHasAddress ==
    (arg.fn = "adapter" /\ arg.this.isConnected) => arg.this.address \in Addresses

\* C13: an adapter instance whose walletInstance is null stays disconnected:
\* every connect() on it rejects with the not-installed error, and no call
\* or event sets isConnected.  (Checked under SpecAdapter.)
C13_NoHandleStaysDisconnected ==
    (arg.fn = "adapter" /\ ~arg.this.walletInstance)
        => /\ ~arg.this.isConnected
           /\ ~arg.connecting
           /\ (out.fn = "connect" => (out.st = "rejected" /\ out.error = "NotInstalled"))

\* an Xverse instance that isInstalled() reports present (the XverseProviders
\* global exists) but which has no handle, after a connect() was refused
C13_Witness ==
    /\ arg.fn = "adapter"
    /\ arg.this.name = "Xverse"
    /\ isInstalled("Xverse", window)
    /\ ~arg.this.walletInstance
    /\ out.fn = "connect"
    /\ out.error = "NotInstalled"

\* C14, as stated: a session-requiring method invoked on an adapter that is
\* not connected (isConnected false or address unset) raises the
\* not-connected error before any member of the handle is reached.
\* (Checked under SpecAdapter.)
C14_NotConnectedRejects ==
    (/\ arg.fn = "adapter"
     /\ out.fn \in SessionOps
     /\ (~arg.this.isConnected \/ arg.this.address \in {NULL, undefined}))
        => (out.st = "rejected" /\ out.error = "NotConnected" /\ out.touched = {})

\* C14, amended: such a call is rejected before any member of the handle is
\* reached, with the not-connected error when the instance has a handle, and
\* with the not-installed or the not-connected error when it has none (the
\* inherited methods call requireInstalled first).
C14_NotConnectedRejectsByGuard ==
    (/\ arg.fn = "adapter"
     /\ out.fn \in SessionOps
     /\ (~arg.this.isConnected \/ arg.this.address \in {NULL, undefined}))
        => /\ out.st = "rejected"
           /\ out.touched = {}
           /\ IF arg.this.walletInstance
              THEN out.error = "NotConnected"
              ELSE out.error \in {"NotInstalled", "NotConnected"}

\* a Magic Eden instance an accountsChanged event with no accounts has
\* disconnected (the address is still set), refusing a session method
C14_Witness ==
    /\ arg.fn = "adapter"
    /\ arg.this.name = "MagicEden"
    /\ ~arg.this.isConnected
    /\ arg.this.address = "bc1p"
    /\ out.fn = "signMessage"
    /\ out.error = "NotConnected"

\* C15, as stated: for every N >= 0 and 0 <= k < pageSize, on a source that
\* answers N full pages and then k items, getAllInscriptions() returns
\* N*pageSize + k items in page order after exactly N+1 requests, the i-th
\* with cursor i*pageSize.  (Checked under SpecPages.)
C15_PagesAllFetched ==
    (out.fn = "getAllInscriptions" /\ out.pc = "resolved" /\ ~arg.always)
        => /\ out.length = arg.full * pageSize + arg.last
           /\ out.pages = [i \in 1..arg.full |-> pageSize]
                              \o (IF arg.last > 0 THEN <<arg.last>> ELSE <<>>)
           /\ out.requests = [i \in 1..(arg.full + 1) |-> (i - 1) * pageSize]

\* C15, amended: the same for every N below the safety cap (N < maxPages).
C15_PagesAllFetchedBelowCap ==
    (out.fn = "getAllInscriptions" /\ out.pc = "resolved" /\ ~arg.always
        /\ arg.full < maxPages)
        => /\ out.length = arg.full * pageSize + arg.last
           /\ out.pages = [i \in 1..arg.full |-> pageSize]
                              \o (IF arg.last > 0 THEN <<arg.last>> ELSE <<>>)
           /\ out.requests = [i \in 1..(arg.full + 1) |-> (i - 1) * pageSize]

\* two full pages and a last one of one item, all fetched
C15_Witness ==
    /\ out.fn = "getAllInscriptions"
    /\ out.pc = "resolved"
    /\ ~arg.always
    /\ arg.full = 2
    /\ arg.last = 1
    /\ out.length = 2 * pageSize + 1

\* C16: on a source that answers a full page to every request,
\* getAllInscriptions() never makes more than maxPages requests, ends
\* (resolved, not rejected) after exactly maxPages of them with the warning
\* logged and the maxPages * pageSize items gathered so far; and on any
\* source the warning is logged only when the cap was reached.
\* (Checked under SpecPagesLive.)
C16_CapStopsFullPages ==
    /\ [](out.fn = "getAllInscriptions" => Len(out.requests) <= maxPages)
    /\ []((out.fn = "getAllInscriptions" /\ out.pc = "resolved" /\ arg.always)
            => /\ Len(out.requests) = maxPages
               /\ out.warned
               /\ out.length = maxPages * pageSize
               /\ out.length > 0)
    /\ []((out.fn = "getAllInscriptions" /\ out.warned)
            => (out.pageCount = maxPages /\ Len(out.requests) = maxPages))
    /\ ((out.fn = "getAllInscriptions" /\ arg.always)
            ~> (out.fn = "getAllInscriptions" /\ out.pc = "resolved" /\ arg.always))

\* the always-full source, stopped at the cap with the warning
C16_Witness ==
    /\ out.fn = "getAllInscriptions"
    /\ arg.always
    /\ out.pc = "resolved"
    /\ out.warned
    /\ Len(out.requests) = maxPages

\* C17: normalizing the canonical object {confirmed: c, unconfirmed: u,
\* total: c + u} under any wallet name gives back the same confirmed,
\* unconfirmed and total.  (Checked under SpecBalance.)
C17_NormalizeIdempotent ==
    (/\ out.fn = "normalizeBalance"
     /\ ~IsNumber(arg.balance)
     /\ arg.balance.confirmed # UNDEF
     /\ arg.balance.unconfirmed # UNDEF
     /\ arg.balance.total = arg.balance.confirmed + arg.balance.unconfirmed
     /\ arg.balance.amount = UNDEF
     /\ arg.balance.pending = UNDEF
     /\ arg.balance.confirm = UNDEF)
        => out.value = [confirmed |-> arg.balance.confirmed,
                        unconfirmed |-> arg.balance.unconfirmed,
                        total |-> arg.balance.total]

\* C18: normalizing {confirmed: c, unconfirmed: u} under any wallet name
\* gives confirmed = c, unconfirmed = u, total = c + u; and whatever the
\* normalizer returns has total = confirmed + unconfirmed.
\* (Checked under SpecBalance.)
C18_TotalIsSum ==
    out.fn = "normalizeBalance"
        => /\ out.value.total = out.value.confirmed + out.value.unconfirmed
           /\ (/\ ~IsNumber(arg.balance)
               /\ arg.balance.confirmed # UNDEF
               /\ arg.balance.unconfirmed # UNDEF
               /\ arg.balance.total = UNDEF
               /\ arg.balance.amount = UNDEF
               /\ arg.balance.pending = UNDEF
               /\ arg.balance.confirm = UNDEF)
                  => out.value = [confirmed |-> arg.balance.confirmed,
                                  unconfirmed |-> arg.balance.unconfirmed,
                                  total |-> arg.balance.confirmed + arg.balance.unconfirmed]

\* {confirmed: 1, unconfirmed: 2} normalized to a total of 3
C18_Witness ==
    /\ out.fn = "normalizeBalance"
    /\ ~IsNumber(arg.balance)
    /\ arg.balance.confirmed = 1
    /\ arg.balance.unconfirmed = 2
    /\ arg.balance.total = UNDEF
    /\ arg.balance.amount = UNDEF
    /\ arg.balance.pending = UNDEF
    /\ arg.balance.confirm = UNDEF
    /\ out.value.total = 3

\* C19: normalizing {confirm: a, pending: b} under any wallet name gives
\* {confirmed: a, unconfirmed: b, total: a + b}.  (Checked under SpecBalance.)
C19_VariantFieldNames ==
    (/\ out.fn = "normalizeBalance"
     /\ ~IsNumber(arg.balance)
     /\ arg.balance.confirm # UNDEF
     /\ arg.balance.pending # UNDEF
     /\ arg.balance.confirmed = UNDEF
     /\ arg.balance.unconfirmed = UNDEF
     /\ arg.balance.total = UNDEF
     /\ arg.balance.amount = UNDEF)
        => out.value = [confirmed |-> arg.balance.confirm,
                        unconfirmed |-> arg.balance.pending,
                        total |-> arg.balance.confirm + arg.balance.pending]

\* C20: for every wallet and every balance, the facade's getBalance()
\* resolves to the wallet's total in BTC (the total satoshis divided by
\* 100,000,000) and stores that value in the snapshot, whether the adapter
\* hands over satoshis or BTC, a number or an object; balances of 1 BTC or
\* more and a balance of 0 included.  (Checked under SpecConvert.)
C20_BalanceInBTC ==
    out.fn = "getBalance"
        => /\ out.st = "resolved"
           /\ NumEq(out.value, Num(arg.total, 1))
           /\ currentState.balance = out.value

\* C21: for every wallet and every positive integer amount, when the facade's
\* sendBitcoin(to, amount) invokes the wallet's send method, the amount it
\* hands over is the caller's number of satoshis.  (Checked under SpecSend.)
C21_AmountUnchanged ==
    (out.fn = "sendBitcoin" /\ out.handed # Num(UNDEF, 0))
        => out.handed = Num(arg.amount, 0)

\* C22: within one facade call of pushPsbt, pushTx or sendBitcoin the wallet's
\* broadcast/send method is invoked at most once, and a call whose invocation
\* failed is rejected.  (Checked under SpecSend.)
C22_BroadcastOnceAndFailureRejects ==
    out.fn \in SendOps
        => /\ out.invocations <= 1
           /\ out.failed => out.st = "rejected"

\* C23: when the wallet call made by the facade's getBalance, getInscriptions
\* or getAllInscriptions fails (the wallet throws, or answers an error
\* envelope), the facade call settles as rejected with the wallet's error.
\* (Checked under SpecOps.)
C23_WalletFailureRejects ==
    [][/\ \A op \in {"getInscriptions", "getAllInscriptions"} :
            (passThrough(op, TRUE, TRUE) /\ \E t \in touched' : t[1] = "invoke")
                => (ret'.st = "rejected" /\ ret'.error = "ProviderError")
       /\ \A name \in PROVIDER_CLASSES : \A reply \in BalanceReplies(name) :
            (/\ reply.kind \in {"throw", "error"}
             /\ balCall.prov # NoProvider
             /\ providers[balCall.prov].name = name
             /\ getBalanceResume(reply))
                => (ret'.st = "rejected" /\ ret'.error = "ProviderError")]_vars

\* C24: for every adapter whose wallet answers several addresses on connect,
\* provider.address is the ordinals/taproot address whenever the answer holds
\* one, and the payment/native-segwit address only when it holds none,
\* whatever the order of the answer.  (Checked under SpecAddress.)
C24_OrdinalsAddressPreferred ==
    (out.fn = "connect" /\ out.st = "resolved")
        => LET kinds == {arg.addresses[i] : i \in 1..Len(arg.addresses)}
           IN  /\ "ordinals" \in kinds => out.address = addressOf("ordinals")
               /\ out.address = addressOf("payment") => "ordinals" \notin kinds

\* C25: when Magic Eden's connect() is invoked while Xverse or Leather is
\* present and Magic Eden's own object is not the one reachable from the
\* globals, it rejects with the wallet-conflict error before the wallet's
\* connect is called, and the instance stays disconnected.
\* (Checked under SpecAdapter.)
C25_ConflictRejectsConnect ==
    (/\ arg.fn = "adapter"
     /\ arg.this.name = "MagicEden"
     /\ walletConflict(window)
     /\ out.fn = "connect")
        => /\ out.st = "rejected"
           /\ out.error = "WalletConflict"
           /\ out.touched = {}
           /\ ~arg.this.isConnected

\* C26: for every adapter and every capability flag its descriptor declares
\* true that has a facade operation, that operation called while connected
\* reaches a method the adapter implements.  (Checked under SpecDispatch.)
C26_DeclaredTrueIsImplemented ==
    (out.fn \in FeatureOps /\ featureNode(arg.name, featurePath(arg.fn)) = "true")
        => out.st = "dispatched"

\* C27: in every reachable store state isConnected is true exactly when
\* provider is non-null and exactly when walletType is non-null (connect sets
\* the three together, disconnect clears them together), and a getBalance()
\* step changes no field but balance.  (Checked under Spec.)
C27_ConnectionFieldsAgree ==
    /\ [](/\ currentState.isConnected <=> currentState.provider # NoProvider
          /\ currentState.isConnected <=> currentState.walletType # NULL)
    /\ [][((\E has \in BOOLEAN : getBalance(has)) \/ GetBalanceResume)
            => [currentState' EXCEPT !.balance = currentState.balance] = currentState]_vars

\* a connected store after getBalance() stored a balance
C27_Witness ==
    /\ currentState.isConnected
    /\ currentState.provider # NoProvider
    /\ currentState.walletType # NULL
    /\ ret.op = "getBalance"
    /\ ret.st = "resolved"
    /\ currentState.balance # NullBalance

\* C28: under any interleaving of connect, disconnect and getBalance, a
\* balance is written only to a store that names the provider it was fetched
\* from, a new connection's first snapshot carries no balance from before it,
\* and every disconnected snapshot has balance null.  (Checked under Spec.)
C28_BalanceBelongsToConnection ==
    [][/\ ~currentState'.isConnected => currentState'.balance = NullBalance
       /\ \A p \in ProviderIds : \A reply \in BalanceReplies(providers[p].name) :
            (connectBalance(p, reply) /\ currentState'.balance # NullBalance)
                => currentState'.provider = p
       /\ (GetBalanceResume /\ ret'.st = "resolved")
                => currentState'.provider = balCall.prov
       /\ (Handshake /\ currentState'.provider # currentState.provider)
                => currentState'.balance = NullBalance]_vars

\* C29: when disconnect() has just completed while the handshake of a
\* connect() is still pending, the resolution of that handshake leaves the
\* store disconnected: it does not re-establish the connection.
\* (Checked under Spec.)
C29_DisconnectCancelsPendingConnect ==
    [][\A p \in ProviderIds : \A has \in BOOLEAN :
           \A reply \in HandshakeReplies(providers[p].name) :
               (/\ ret = Resolved("disconnect")
                /\ connectHandshake(p, reply, has))
                   => (~currentState'.isConnected /\ currentState'.provider # p)]_vars

\* C30: when the adapter's connect() rejects (before the wallet is asked, or
\* on the wallet's answer), the facade's connect(name) rejects with that
\* error, every field of the store keeps its value (a wallet that was active
\* stays active) and no subscriber is notified.  (Checked under SpecReconnect.)
C30_FailedConnectLeavesStore ==
    [][/\ \A p \in ProviderIds : \A has \in BOOLEAN :
            \A reply \in HandshakeReplies(providers[p].name) :
                (connectHandshake(p, reply, has) /\ ~reply.ok)
                    => /\ ret' = Rejected("connect", "ProviderError")
                       /\ currentState' = currentState
                       /\ notified' = <<>>
       /\ \A name \in PROVIDER_CLASSES :
            (/\ connect(name, MaxRace)
             /\ createProvider(name, window) = "ok"
             /\ connectStart(name, window) # "ok")
                => /\ ret' = Rejected("connect", connectStart(name, window))
                   /\ currentState' = currentState
                   /\ notified' = <<>>]_vars

\* a second connect() rejected by the wallet while a wallet is active and a
\* subscriber is registered: the store still names the first wallet
C30_Witness ==
    /\ ret = Rejected("connect", "ProviderError")
    /\ currentState.isConnected
    /\ currentState.provider # NoProvider
    /\ connectPc[currentState.provider] = "resolved"
    /\ \E p \in ProviderIds : connectPc[p] = "rejected"
    /\ subscribers # <<>>
    /\ notified = <<>>

====
